---- MODULE Spec2Model ----
(***************************************************************************)
(* Model of the geospatial compliance clustering engine                    *)
(* (GeospatialAnalyticsService.analyzeComplianceReports,                   *)
(* src/src/services/analyticService.ts) and of the HTTP handler that       *)
(* calls it (analyzeCompliance,                                            *)
(* src/src/controllers/analytics/Analytics.ts), followed by models of the   *)
(* mobile compliance routes, of the rate limiter and of the invitation     *)
(* controller.                                                             *)
(*                                                                         *)
(* Coordinates are integers in grid units (one unit is about 0.01 degree,  *)
(* roughly 1.1 km near the equator); epsKm is expressed in the same unit   *)
(* and distances are compared by their squares.  JavaScript arrays are     *)
(* TLA+ sequences: JS index k is TLA+ index k + 1.                         *)
(***************************************************************************)
EXTENDS Integers, Sequences, FiniteSets, TLC

VARIABLES
    reports,      \* the reports argument of the call
    epsKm,        \* the epsKm argument
    minSamples,   \* the minSamples argument
    turfMajor,    \* major version of the installed @turf/turf (6 or 7)
    pc,           \* "call" before the call, "returned" / "thrown" after it
    pointArgs,    \* coordinates handed to turf.point, in call order
    result,       \* the AnalyticsResults returned (NoResult when none)
    error,        \* message of the Error thrown ("" when none)
    query,        \* req.query of the HTTP request
    store,        \* the report store: its rows, or the failure of its query
    handlerPc,    \* "idle", "request" before the handler runs, "responded" after
    responses,    \* the responses sent through res, in order
    calls,        \* the handler's calls to the store and to the engine, in order
    req,          \* the request of the mobile compliance routes
    complianceReports,  \* rows of the ComplianceReport repository
    auditLogs,    \* rows of the AuditLog repository
    faults,       \* the repository operation that throws, if any
    now,          \* the clock, Date.now()
    requestCounts,  \* the rate limiter's Map from IP to {count, resetTime}
    invites,      \* rows of the AdminInvite repository
    users,        \* rows of the User repository
    inflight      \* invite requests suspended at an await, with their locals

engineVars == <<reports, epsKm, minSamples, pc, pointArgs, result, error>>

handlerVars == <<query, store, handlerPc, responses, calls>>

complianceVars == <<req, complianceReports, auditLogs, faults>>

limiterVars == <<now, requestCounts>>

inviteVars == <<invites, users, inflight>>

vars == <<reports, epsKm, minSamples, turfMajor, pc, pointArgs, result, error,
          query, store, handlerPc, responses, calls,
          req, complianceReports, auditLogs, faults,
          now, requestCounts, invites, users, inflight>>

(***************************************************************************)
(* Bounds of the model.                                                    *)
(***************************************************************************)
MaxReports == 2      \* general batches: up to MaxReports reports (one more when all are located)
MaxCoord == 1        \* general batches: latitudes 0..MaxCoord
MaxSite == 4         \* dense batches: sites 0..MaxSite on one meridian
MaxDup == 2          \* dense batches: up to MaxDup reports on one site
MaxEps == 1          \* epsKm ranges over 0..MaxEps
MaxMinSamples == 4   \* minSamples ranges over 1..MaxMinSamples
MaxOrderSite == 6    \* reordered batches: sites 0..MaxOrderSite on one meridian
MaxParam == 2        \* query parameters: the decimal texts of -1..MaxParam

(***************************************************************************)
(* JavaScript values of a coordinate field.                                *)
(***************************************************************************)
Num(n) == [kind |-> "number", val |-> n]
Undefined == [kind |-> "undefined", val |-> 0]
Null == [kind |-> "null", val |-> 0]
NaN == [kind |-> "NaN", val |-> 0]

NoLocation == [present |-> FALSE, latitude |-> Undefined, longitude |-> Undefined]
Location(lat, lng) == [present |-> TRUE, latitude |-> lat, longitude |-> lng]

ComplianceStatus == {"COMPLIANT", "NON_COMPLIANT", "FRAUDULENT"}

Report(id, status, loc) == [_id |-> id, status |-> status, location |-> loc]

\* Global isNaN(x): Number(undefined) and NaN are NaN, Number(null) is 0.
isNaN(c) == c.kind \in {"undefined", "NaN"}

\* The predicate of reports.filter(...), lines 20-25.
hasValidLocation(report) ==
    /\ report.location.present
    /\ report.location.latitude.kind # "undefined"
    /\ report.location.longitude.kind # "undefined"
    /\ ~isNaN(report.location.latitude)
    /\ ~isNaN(report.location.longitude)

reportsWithLocation(rs) == SelectSeq(rs, hasValidLocation)

\* turf.point rejects coordinates that are not numbers (isNumber excludes null).
isNumber(c) == c.kind = "number"

pointAccepted(report) ==
    isNumber(report.location.longitude) /\ isNumber(report.location.latitude)

(***************************************************************************)
(* GeoJSON features built by reportsWithLocation.map, lines 33-49.         *)
(* coordinates is <<lng, lat>>; reportIndex is the 0-based JS index.       *)
(***************************************************************************)
NoCluster == -1   \* stands for an absent `cluster` property (undefined)

geoJsonPoints(rwl) ==
    [k \in 1..Len(rwl) |->
        [coordinates |-> <<rwl[k].location.longitude.val, rwl[k].location.latitude.val>>,
         reportIndex |-> k - 1,
         reportId |-> rwl[k]._id,
         status |-> rwl[k].status,
         cluster |-> NoCluster]]

(***************************************************************************)
(* turf.clustersDbscan (dependency @turf/turf, called at lines 52-59).     *)
(* Release 6 delegates to density-clustering's DBSCAN, whose region query  *)
(* keeps the points with distance < epsilon; release 7 has its own loop    *)
(* whose region query keeps the points with distance <= maxDistance.       *)
(***************************************************************************)
distance2(a, b) ==
    (a[1] - b[1]) * (a[1] - b[1]) + (a[2] - b[2]) * (a[2] - b[2])

withinEps(a, b, eps, major) ==
    IF major = 6 THEN distance2(a, b) < eps * eps
                 ELSE distance2(a, b) <= eps * eps

Indices(n) == [k \in 1..n |-> k]

SeqRange(s) == {s[k] : k \in 1..Len(s)}

\* Neighbourhood of feature i, as the ascending list of feature indices.
regionQuery(features, i, eps, major) ==
    LET near(j) == withinEps(features[i].coordinates, features[j].coordinates, eps, major)
    IN SelectSeq(Indices(Len(features)), near)

\* a followed by the elements of b that a does not hold.
mergeArrays(a, b) ==
    LET held == SeqRange(a)
        notInA(x) == x \notin held
    IN a \o SelectSeq(b, notInA)

\* options.minPoints || 3
effectiveMinPoints(minPoints) == IF minPoints = 0 THEN 3 ELSE minPoints

\* Expansion of cluster cid over the growing list `neighbors`, from position i.
\* st = [visited : index -> BOOLEAN, cluster : index -> cluster id or NoCluster].
RECURSIVE expandCluster(_, _, _, _, _, _)
expandCluster(N, minPts, cid, neighbors, i, st) ==
    IF i > Len(neighbors) THEN st
    ELSE LET p == neighbors[i]
             fresh == ~st.visited[p]
             grown == IF fresh /\ Len(N[p]) >= minPts
                      THEN mergeArrays(neighbors, N[p])
                      ELSE neighbors
             st2 == [visited |-> [st.visited EXCEPT ![p] = TRUE],
                     cluster |-> IF st.cluster[p] = NoCluster
                                 THEN [st.cluster EXCEPT ![p] = cid]
                                 ELSE st.cluster]
         IN expandCluster(N, minPts, cid, grown, i + 1, st2)

\* Main loop over the points in input order; nextId is the next cluster id.
RECURSIVE dbscanRun(_, _, _, _, _, _)
dbscanRun(N, minPts, major, idx, nextId, st) ==
    IF idx > Len(N) THEN st
    ELSE IF st.visited[idx] THEN dbscanRun(N, minPts, major, idx + 1, nextId, st)
    ELSE IF Len(N[idx]) >= minPts
         THEN LET seeded == [visited |-> [st.visited EXCEPT ![idx] = TRUE],
                             cluster |-> [st.cluster EXCEPT ![idx] = nextId]]
              IN dbscanRun(N, minPts, major, idx + 1, nextId + 1,
                           expandCluster(N, minPts, nextId, N[idx], 1, seeded))
         ELSE dbscanRun(N, minPts, major, idx + 1, nextId,
                        [st EXCEPT !.visited[idx] = (major = 6)])

\* The cloned collection with the `cluster` property set on clustered points.
clustersDbscan(features, maxDistance, minPoints, major) ==
    LET n == Len(features)
        N == [i \in 1..n |-> regionQuery(features, i, maxDistance, major)]
        st0 == [visited |-> [i \in 1..n |-> FALSE],
                cluster |-> [i \in 1..n |-> NoCluster]]
        st == dbscanRun(N, effectiveMinPoints(minPoints), major, 1, 0, st0)
    IN [i \in 1..n |-> [features[i] EXCEPT !.cluster = st.cluster[i]]]

\* The call of lines 52-59 (mutant: the threshold is passed off by one).
clusteredPointsOffByOne(features, eps, minSamp, major) ==
    clustersDbscan(features, eps, minSamp - 1, major)

clusteredPoints(features, eps, minSamp, major) ==
    clustersDbscan(features, eps, minSamp, major)

(***************************************************************************)
(* Grouping of the clustered features, lines 61-87.  `clusters` models the *)
(* Map<number, ClusterPoint[]>: its entries in insertion order.            *)
(***************************************************************************)
clusterPoint(feature, k, rwl) ==
    [index |-> k - 1,
     lng |-> feature.coordinates[1],
     lat |-> feature.coordinates[2],
     report |-> rwl[feature.reportIndex + 1],
     clusterId |-> feature.cluster]

mapHas(entries, id) == \E e \in 1..Len(entries) : entries[e].key = id

mapPush(entries, id, point) ==
    LET withKey == IF mapHas(entries, id) THEN entries
                   ELSE Append(entries, [key |-> id, points |-> <<>>])
    IN [e \in 1..Len(withKey) |->
           IF withKey[e].key = id
           THEN [withKey[e] EXCEPT !.points = Append(@, point)]
           ELSE withKey[e]]

\* One iteration of clusteredPoints.features.forEach, lines 64-87.
\* Mutant: the `else` is lost, a noise point is also filed under its cluster id.
groupFeatureNoElse(acc, feature, k, rwl) ==
    [clusters |-> mapPush(acc.clusters, feature.cluster, clusterPoint(feature, k, rwl)),
     noisePoints |-> IF feature.cluster = NoCluster
                     THEN Append(acc.noisePoints, clusterPoint(feature, k, rwl))
                     ELSE acc.noisePoints]

\* Mutant: the noise test is a falsiness test, cluster id 0 counts as noise.
groupFeatureFalsy(acc, feature, k, rwl) ==
    IF feature.cluster = NoCluster \/ feature.cluster = 0
    THEN [acc EXCEPT !.noisePoints = Append(@, clusterPoint(feature, k, rwl))]
    ELSE [acc EXCEPT !.clusters = mapPush(@, feature.cluster, clusterPoint(feature, k, rwl))]

groupFeature(acc, feature, k, rwl) ==
    IF feature.cluster = NoCluster
    THEN [acc EXCEPT !.noisePoints = Append(@, clusterPoint(feature, k, rwl))]
    ELSE [acc EXCEPT !.clusters = mapPush(@, feature.cluster, clusterPoint(feature, k, rwl))]

RECURSIVE groupFeatures(_, _, _, _)
groupFeatures(features, k, rwl, acc) ==
    IF k > Len(features) THEN acc
    ELSE groupFeatures(features, k + 1, rwl, groupFeature(acc, features[k], k, rwl))

(***************************************************************************)
(* Per-cluster statistics, lines 90-131, and the sort of line 134.         *)
(***************************************************************************)
\* One tally of the switch of lines 109-119 (mutant: a `default` branch counts
\* an unrecognised status as compliant).
RECURSIVE countStatusWithDefault(_, _, _)
countStatusWithDefault(points, k, status) ==
    IF k > Len(points) THEN 0
    ELSE (IF \/ points[k].report.status = status
             \/ (status = "COMPLIANT" /\ points[k].report.status \notin ComplianceStatus)
          THEN 1 ELSE 0)
         + countStatusWithDefault(points, k + 1, status)

RECURSIVE countStatus(_, _, _)
countStatus(points, k, status) ==
    IF k > Len(points) THEN 0
    ELSE (IF points[k].report.status = status THEN 1 ELSE 0)
         + countStatus(points, k + 1, status)

\* Exact quotients: a / b (a >= 0, b > 0) as a fraction in lowest terms.
RECURSIVE gcd(_, _)
gcd(a, b) == IF b = 0 THEN a ELSE gcd(b, a % b)

Fraction(a, b) == LET g == gcd(a, b) IN [num |-> a \div g, den |-> b \div g]

Zero == Fraction(0, 1)

fracLess(x, y) == x.num * y.den < y.num * x.den

\* points.reduce((sum, p) => sum + p.lat, 0) and the same over p.lng.
RECURSIVE sumLat(_, _)
sumLat(points, k) ==
    IF k > Len(points) THEN 0 ELSE points[k].lat + sumLat(points, k + 1)

RECURSIVE sumLng(_, _)
sumLng(points, k) ==
    IF k > Len(points) THEN 0 ELSE points[k].lng + sumLng(points, k + 1)

\* Lines 92-93 (mutant: the latitude of the centre is taken from the longitudes).
centerLatFromLng(points) == Fraction(sumLng(points, 1), Len(points))

centerLat(points) == Fraction(sumLat(points, 1), Len(points))

centerLng(points) == Fraction(sumLng(points, 1), Len(points))

\* turf.distance(centre, point), lines 98-102, by its square on the grid: the
\* square root is increasing, so the order of distances and the zero distance
\* are those of the squares.
distanceToCenter2(cLat, cLng, point) ==
    LET dLat == point.lat * cLat.den - cLat.num
        dLng == point.lng * cLng.den - cLng.num
    IN Fraction(dLat * dLat * cLng.den * cLng.den + dLng * dLng * cLat.den * cLat.den,
                cLat.den * cLat.den * cLng.den * cLng.den)

\* Math.max(maxRadius, distance), line 103 (mutant: Math.min).
mathMin(x, y) == IF fracLess(y, x) THEN y ELSE x

mathMax(x, y) == IF fracLess(x, y) THEN y ELSE x

\* The loop of lines 96-104; the result is the square of radius_km.
RECURSIVE maxRadius(_, _, _, _, _)
maxRadius(points, k, cLat, cLng, acc) ==
    IF k > Len(points) THEN acc
    ELSE maxRadius(points, k + 1, cLat, cLng,
                   mathMax(acc, distanceToCenter2(cLat, cLng, points[k])))

clusterInfo(entry) ==
    [cluster_id |-> entry.key,
     size |-> Len(entry.points),
     center |-> [latitude |-> centerLat(entry.points),
                 longitude |-> centerLng(entry.points)],
     radius_km |-> maxRadius(entry.points, 1, centerLat(entry.points),
                             centerLng(entry.points), Zero),
     points |-> entry.points,
     compliance_stats |->
        [compliant |-> countStatus(entry.points, 1, "COMPLIANT"),
         non_compliant |-> countStatus(entry.points, 1, "NON_COMPLIANT"),
         fraudulent |-> countStatus(entry.points, 1, "FRAUDULENT")]]

\* Array.prototype.sort is stable; comparator (a, b) => b.size - a.size.
\* Mutants: the array is left as built; equal sizes are taken in reverse.
insertAtEnd(sorted, info) == Append(sorted, info)

insertBeforeTies(sorted, info) ==
    LET ahead == Cardinality({j \in 1..Len(sorted) : sorted[j].size > info.size})
    IN SubSeq(sorted, 1, ahead) \o <<info>> \o SubSeq(sorted, ahead + 1, Len(sorted))

insertBySize(sorted, info) ==
    LET ahead == Cardinality({j \in 1..Len(sorted) : sorted[j].size >= info.size})
    IN SubSeq(sorted, 1, ahead) \o <<info>> \o SubSeq(sorted, ahead + 1, Len(sorted))

RECURSIVE sortBySize(_, _, _)
sortBySize(infos, k, sorted) ==
    IF k > Len(infos) THEN sorted
    ELSE sortBySize(infos, k + 1, insertBySize(sorted, infos[k]))

(***************************************************************************)
(* Overall compliance statistics, lines 137-150.                           *)
(***************************************************************************)
RECURSIVE countReports(_, _, _)
countReports(rs, k, status) ==
    IF k > Len(rs) THEN 0
    ELSE (IF rs[k].status = status THEN 1 ELSE 0) + countReports(rs, k + 1, status)

\* Mutant: the reduce starts at the second report.
overallComplianceFromSecond(rwl) ==
    [total_compliant |-> countReports(rwl, 2, "COMPLIANT"),
     total_non_compliant |-> countReports(rwl, 2, "NON_COMPLIANT"),
     total_fraudulent |-> countReports(rwl, 2, "FRAUDULENT")]

overallCompliance(rwl) ==
    [total_compliant |-> countReports(rwl, 1, "COMPLIANT"),
     total_non_compliant |-> countReports(rwl, 1, "NON_COMPLIANT"),
     total_fraudulent |-> countReports(rwl, 1, "FRAUDULENT")]

\* summary.total_points, line 158 (mutant: the unfiltered batch is counted).
totalPointsUnfiltered(rs, rwl) == Len(rs)

totalPoints(rs, rwl) == Len(rwl)

\* The value returned at lines 152-167 (timestamp left out).
analysisResults(rs, rwl, eps, minSamp, major) ==
    LET features == clusteredPoints(geoJsonPoints(rwl), eps, minSamp, major)
        grouped == groupFeatures(features, 1, rwl, [clusters |-> <<>>, noisePoints |-> <<>>])
        clusterInfos == [e \in 1..Len(grouped.clusters) |-> clusterInfo(grouped.clusters[e])]
    IN [clustering_params |-> [eps_km |-> eps, min_samples |-> minSamp],
        summary |-> [total_points |-> totalPoints(rs, rwl),
                     n_clusters |-> Len(grouped.clusters),
                     n_noise_points |-> Len(grouped.noisePoints),
                     compliance_overview |-> overallCompliance(rwl)],
        clusters |-> sortBySize(clusterInfos, 1, <<>>),
        noise_points |-> grouped.noisePoints]

NoResult == [absent |-> TRUE]

\* The guard of line 27 (mutant: the guard is missing).
noValidReportsNever(rwl) == FALSE

noValidReports(rwl) == Len(rwl) = 0

\* Position of the first filtered report turf.point rejects, 0 when there is none.
firstRejected(rwl) ==
    IF \A k \in 1..Len(rwl) : pointAccepted(rwl[k]) THEN 0
    ELSE CHOOSE k \in 1..Len(rwl) :
            /\ ~pointAccepted(rwl[k])
            /\ \A j \in 1..(k - 1) : pointAccepted(rwl[j])

coordinatesOf(report) == <<report.location.longitude, report.location.latitude>>

\* The caller's array after the call: reports.filter (line 20) builds a new
\* array and no statement of lines 13-168 assigns to `reports` or to a field
\* of a report (mutant: the filter is done in place).
reportsFilteredInPlace(rs) == reportsWithLocation(rs)

reportsAfterCall(rs) == rs

\* The body of analyzeComplianceReports, lines 13-168, as the outcome of a
\* call: how it ended, the Error message, the points built, the value returned.
callOutcome(rs, eps, minSamp, major) ==
    LET rwl == reportsWithLocation(rs)
        bad == firstRejected(rwl)
    IN IF noValidReports(rwl)
       THEN [pc |-> "thrown",
             error |-> "No reports with valid location data found",
             pointArgs |-> <<>>,
             result |-> NoResult]
       ELSE IF bad # 0
       THEN [pc |-> "thrown",
             error |-> "coordinates must contain numbers",
             pointArgs |-> [k \in 1..bad |-> coordinatesOf(rwl[k])],
             result |-> NoResult]
       ELSE [pc |-> "returned",
             error |-> "",
             pointArgs |-> [k \in 1..Len(rwl) |-> coordinatesOf(rwl[k])],
             result |-> analysisResults(rs, rwl, eps, minSamp, major)]

(***************************************************************************)
(* A direct call of analyzeComplianceReports, lines 13-168.                *)
(***************************************************************************)
analyzeComplianceReports ==
    /\ pc = "call"
    /\ \E outcome \in {callOutcome(reports, epsKm, minSamples, turfMajor)} :
          /\ pc' = outcome.pc
          /\ error' = outcome.error
          /\ pointArgs' = outcome.pointArgs
          /\ result' = outcome.result
    /\ reports' = reportsAfterCall(reports)
    /\ UNCHANGED <<epsKm, minSamples, turfMajor>>
    /\ UNCHANGED handlerVars
    /\ UNCHANGED <<complianceVars, limiterVars, inviteVars>>

(***************************************************************************)
(* Values of req.query: a parameter is absent or a string, kept as its     *)
(* sequence of characters.                                                 *)
(***************************************************************************)
Absent == [kind |-> "absent", text |-> <<>>]
Text(chars) == [kind |-> "string", text |-> chars]

Digits == <<"0", "1", "2", "3", "4", "5", "6", "7", "8", "9">>

isDigit(c) == \E d \in 1..Len(Digits) : Digits[d] = c

digitValue(c) == (CHOOSE d \in 1..Len(Digits) : Digits[d] = c) - 1

RECURSIVE digitsValue(_, _)
digitsValue(chars, acc) ==
    IF chars = <<>> THEN acc
    ELSE digitsValue(Tail(chars), 10 * acc + digitValue(Head(chars)))

\* Number(x) on a query value: undefined and non-numeric text give NaN, the
\* empty string gives 0, a decimal integer its value.
Number(q) ==
    IF q.kind = "absent" THEN NaN
    ELSE IF q.text = <<>> THEN Num(0)
    ELSE LET negative == q.text[1] = "-"
             body == IF negative THEN Tail(q.text) ELSE q.text
         IN IF body # <<>> /\ \A i \in 1..Len(body) : isDigit(body[i])
            THEN Num(IF negative THEN 0 - digitsValue(body, 0) ELSE digitsValue(body, 0))
            ELSE NaN

\* x || d on a number: NaN and 0 are falsy.
orDefault(x, d) ==
    IF x.kind = "NaN" \/ (x.kind = "number" /\ x.val = 0) THEN Num(d) ELSE x

DefaultMaxDistance == 1000
DefaultMinPoints == 3

\* Lines 28-29.
maxDistanceOf(q) == orDefault(Number(q.maxDistance), DefaultMaxDistance).val

minPointsOf(q) == orDefault(Number(q.minPoints), DefaultMinPoints).val

\* The test of line 33.
invalidParameters(maxDistance, minPoints) == maxDistance <= 0 \/ minPoints < 1

(***************************************************************************)
(* The report store behind ComplianceReportRepo, lines 42-52.              *)
(***************************************************************************)
StringValue == [kind |-> "string", val |-> 0]

NoFailure == [thrown |-> FALSE, isError |-> FALSE, message |-> ""]
ErrorThrown(message) == [thrown |-> TRUE, isError |-> TRUE, message |-> message]
ValueThrown == [thrown |-> TRUE, isError |-> FALSE, message |-> ""]

StoredReport(id, agent, status, loc) ==
    [_id |-> id, agentId |-> agent, status |-> status, location |-> loc]

\* agentId && typeof agentId === 'string', line 48.
agentGiven(agentId) == agentId.kind = "string" /\ agentId.text # <<>>

\* The WHERE clauses of lines 43-45 and 49.
selectedBy(row, agentId) ==
    /\ row.location.present
    /\ row.location.latitude.kind # "undefined"
    /\ row.location.longitude.kind # "undefined"
    /\ agentGiven(agentId) => row.agentId = agentId.text

getMany(rows, agentId) ==
    LET selected(row) == selectedBy(row, agentId) IN SelectSeq(rows, selected)

\* The test of line 59 (mutant: the test is missing).
noReportsNever(found) == FALSE

noReports(found) == Len(found) = 0

\* The filter and map of lines 76-99 (mutant: only the location is tested).
hasSomeLocation(row) == row.location.present

hasNumericLocation(row) ==
    /\ row.location.present
    /\ row.location.latitude.kind = "number"
    /\ row.location.longitude.kind = "number"

analyticsReportsOf(rows) ==
    LET kept == SelectSeq(rows, hasNumericLocation)
    IN [k \in 1..Len(kept) |->
           Report(kept[k]._id, kept[k].status,
                  Location(kept[k].location.latitude, kept[k].location.longitude))]

(***************************************************************************)
(* The responses of analyzeCompliance.                                     *)
(***************************************************************************)
NoParameters == [absent |-> TRUE]

\* Lines 34-38.
badRequest ==
    [status |-> 400, success |-> FALSE, error |-> "Invalid parameters",
     message |-> "maxDistance must be positive and minPoints must be at least 1",
     data |-> NoResult, parameters |-> NoParameters]

\* Lines 60-73.
noDataFound ==
    [status |-> 200, success |-> TRUE, error |-> "",
     message |-> "No compliance reports with location data found",
     data |-> [totalReports |-> 0, clusters |-> <<>>,
               statistics |-> [totalClusters |-> 0, totalCompliantReports |-> 0,
                               totalNonCompliantReports |-> 0,
                               averageReportsPerCluster |-> 0]],
     parameters |-> NoParameters]

\* Lines 108-117.
analysisCompleted(results, maxDistance, minPoints, agentId) ==
    [status |-> 200, success |-> TRUE, error |-> "",
     message |-> "Compliance analysis completed successfully",
     data |-> results,
     parameters |-> [maxDistance |-> maxDistance, minPoints |-> minPoints,
                     agentId |-> IF agentId.kind = "string" /\ agentId.text # <<>>
                                 THEN agentId.text ELSE <<"a", "l", "l">>]]

\* Lines 119-126 (mutant: the message of the Error is not passed on).
analysisFailedUnknown(failure) ==
    [status |-> 500, success |-> FALSE, error |-> "Failed to perform compliance analysis",
     message |-> "Unknown error",
     data |-> NoResult, parameters |-> NoParameters]

analysisFailed(failure) ==
    [status |-> 500, success |-> FALSE, error |-> "Failed to perform compliance analysis",
     message |-> IF failure.isError THEN failure.message ELSE "Unknown error",
     data |-> NoResult, parameters |-> NoParameters]

storeCall(agentId) == [callee |-> "getMany", agentId |-> agentId]

engineCall(analyticsReports, maxDistance, minPoints) ==
    [callee |-> "analyzeComplianceReports", reports |-> analyticsReports,
     epsKm |-> maxDistance, minSamples |-> minPoints]

(***************************************************************************)
(* One request handled by analyzeCompliance, lines 25-127.                 *)
(***************************************************************************)
analyzeCompliance ==
    /\ handlerPc = "request"
    /\ LET maxDistance == maxDistanceOf(query)
           minPoints == minPointsOf(query)
           agentId == query.agentId
           found == getMany(store.rows, agentId)
           analyticsReports == analyticsReportsOf(found)
       IN IF invalidParameters(maxDistance, minPoints)
          THEN /\ responses' = Append(responses, badRequest)
               /\ calls' = calls
          ELSE IF store.failure.thrown
          THEN /\ responses' = Append(responses, analysisFailed(store.failure))
               /\ calls' = Append(calls, storeCall(agentId))
          ELSE IF noReports(found)
          THEN /\ responses' = Append(responses, noDataFound)
               /\ calls' = Append(calls, storeCall(agentId))
          ELSE \E outcome \in {callOutcome(analyticsReports, maxDistance, minPoints, turfMajor)} :
                  /\ responses' =
                        Append(responses,
                               IF outcome.pc = "thrown"
                               THEN analysisFailed(ErrorThrown(outcome.error))
                               ELSE analysisCompleted(outcome.result, maxDistance,
                                                      minPoints, agentId))
                  /\ calls' = calls \o <<storeCall(agentId),
                                         engineCall(analyticsReports, maxDistance, minPoints)>>
    /\ handlerPc' = "responded"
    /\ UNCHANGED <<query, store, turfMajor>>
    /\ UNCHANGED engineVars
    /\ UNCHANGED <<complianceVars, limiterVars, inviteVars>>

(***************************************************************************)
(* Input batches.  Every report carries its position in the batch as _id;  *)
(* the statuses cycle through the enum and a value outside it.             *)
(***************************************************************************)
Statuses == <<"COMPLIANT", "NON_COMPLIANT", "FRAUDULENT", "UNKNOWN">>

StatusAt(k) == Statuses[((k - 1) % Len(Statuses)) + 1]

Numbered(locations) ==
    [k \in 1..Len(locations) |-> Report(k, StatusAt(k), locations[k])]

SeqsUpTo(S, n) == UNION {[1..m -> S] : m \in 0..n}

InvalidCoords == {Undefined, Null, NaN}

\* Locations with a missing or unusable coordinate, next to a usable one.
ValidityLocations ==
    {NoLocation, Location(Num(0), Num(0))}
    \cup {Location(c, Num(0)) : c \in InvalidCoords}
    \cup {Location(Num(0), c) : c \in InvalidCoords}

\* Usable locations on a strip of the grid two units wide.
StripLocations ==
    {Location(Num(a), Num(b)) : a \in 0..MaxCoord, b \in 0..1}

GeneralBatches ==
    {Numbered(s) : s \in SeqsUpTo(ValidityLocations, MaxReports)}
    \cup {Numbered(s) : s \in SeqsUpTo(StripLocations, MaxReports + 1)}

\* Dense batches: counts[s] reports on site s of one meridian (none, one or
\* MaxDup of them), listed by ascending or by descending site.
RECURSIVE Repeat(_, _)
Repeat(x, n) == IF n = 0 THEN <<>> ELSE <<x>> \o Repeat(x, n - 1)

RECURSIVE SitesFrom(_, _)
SitesFrom(counts, s) ==
    IF s > MaxSite THEN <<>> ELSE Repeat(s, counts[s]) \o SitesFrom(counts, s + 1)

Reverse(s) == [k \in 1..Len(s) |-> s[Len(s) + 1 - k]]

DenseLocations(counts, descending) ==
    LET sites == IF descending THEN Reverse(SitesFrom(counts, 0)) ELSE SitesFrom(counts, 0)
    IN [k \in 1..Len(sites) |-> Location(Num(sites[k]), Num(0))]

DenseBatches ==
    {Numbered(DenseLocations(c, d)) : c \in [0..MaxSite -> {0, 1, MaxDup}], d \in BOOLEAN}

\* Reordered batches: one report on each site of a subset of the meridian, by
\* ascending site, with one of them moved to the front.
SetToSeq(S) ==
    [k \in 1..Cardinality(S) |-> CHOOSE x \in S : Cardinality({y \in S : y < x}) = k - 1]

MoveToFront(s, p) ==
    <<s[p]>> \o SubSeq(s, 1, p - 1) \o SubSeq(s, p + 1, Len(s))

OrderLocations(sites, p) ==
    LET order == MoveToFront(SetToSeq(sites), p)
    IN [k \in 1..Len(order) |-> Location(Num(order[k]), Num(0))]

OrderBatches ==
    {Numbered(OrderLocations(S, p)) :
        <<S, p>> \in {sp \in (SUBSET (0..MaxOrderSite)) \X (1..(MaxOrderSite + 1)) :
                        sp[2] <= Cardinality(sp[1])}}

\* The parts of the server that a specification leaves alone.
NoRequest == [route |-> "none"]

ComplianceIdle ==
    /\ req = NoRequest
    /\ complianceReports = <<>>
    /\ auditLogs = <<>>
    /\ faults = "none"

EngineIdle ==
    /\ reports = <<>>
    /\ epsKm = 0
    /\ minSamples = 1
    /\ turfMajor = 7
    /\ pc = "idle"
    /\ pointArgs = <<>>
    /\ result = NoResult
    /\ error = ""
    /\ query = [maxDistance |-> Absent, minPoints |-> Absent, agentId |-> Absent]
    /\ store = [rows |-> <<>>, failure |-> NoFailure]

\* const NOW = Date.now() of the rate limiter, evaluated once when its module is
\* loaded: the clock of the model starts there.
NOW == 0

LimiterIdle ==
    /\ now = NOW
    /\ requestCounts = <<>>

InvitesIdle ==
    /\ invites = <<>>
    /\ users = <<>>
    /\ inflight = <<>>

InitCall(batches, majors) ==
    /\ reports \in batches
    /\ epsKm \in 0..MaxEps
    /\ minSamples \in 1..MaxMinSamples
    /\ turfMajor \in majors
    /\ pc = "call"
    /\ pointArgs = <<>>
    /\ result = NoResult
    /\ error = ""
    /\ query = [maxDistance |-> Absent, minPoints |-> Absent, agentId |-> Absent]
    /\ store = [rows |-> <<>>, failure |-> NoFailure]
    /\ handlerPc = "idle"
    /\ responses = <<>>
    /\ calls = <<>>
    /\ ComplianceIdle
    /\ LimiterIdle
    /\ InvitesIdle

Init == InitCall(GeneralBatches, {6, 7})

\* On one meridian with integer sites, release 6 at epsKm = e >= 1 finds the
\* neighbourhoods of release 7 at e - 1, so dense batches run under release 7.
InitDense == InitCall(DenseBatches, {7})

Next == analyzeComplianceReports

\* Calls on short batches in any order, unusable coordinates included.
Spec == Init /\ [][Next]_vars

\* Calls on dense batches of located reports.
SpecDense == InitDense /\ [][Next]_vars

\* Release 6 at epsKm = e >= 1 again finds the neighbourhoods of release 7 at
\* e - 1 on these batches.
InitOrder == InitCall(OrderBatches, {7})

\* Calls on reordered batches of located reports.
SpecOrder == InitOrder /\ [][Next]_vars

(***************************************************************************)
(* Requests.  The numeric parameters are absent, empty, a word, or the     *)
(* decimal text of an integer; stored reports alternate between two agents *)
(* and carry a location that is null, complete, or has a coordinate that   *)
(* is null, a string or missing.                                           *)
(***************************************************************************)
RECURSIVE decimal(_)
decimal(n) ==
    IF n < 0 THEN <<"-">> \o decimal(0 - n)
    ELSE IF n < 10 THEN <<Digits[n + 1]>>
    ELSE decimal(n \div 10) \o <<Digits[(n % 10) + 1]>>

Agents == <<(<<"a">>), (<<"b">>)>>

ParamValues ==
    {Absent, Text(<<>>), Text(<<"a">>)} \cup {Text(decimal(n)) : n \in (-1)..MaxParam}

AgentValues == {Absent, Text(<<>>), Text(Agents[1])}

StoredLocations ==
    {NoLocation, Location(Num(0), Num(0)), Location(Num(1), Num(0)),
     Location(Null, Num(0)), Location(Num(0), StringValue), Location(Undefined, Num(0))}

StoredRows(locations) ==
    [k \in 1..Len(locations) |->
        StoredReport(k, Agents[((k - 1) % Len(Agents)) + 1], StatusAt(k), locations[k])]

Stores ==
    {[rows |-> StoredRows(s), failure |-> NoFailure] : s \in SeqsUpTo(StoredLocations, MaxReports)}
    \cup {[rows |-> <<>>, failure |-> f] : f \in {ErrorThrown("Connection terminated"), ValueThrown}}

InitRequest ==
    /\ query \in [maxDistance : ParamValues, minPoints : ParamValues, agentId : AgentValues]
    /\ store \in Stores
    /\ turfMajor \in {6, 7}
    /\ handlerPc = "request"
    /\ responses = <<>>
    /\ calls = <<>>
    /\ reports = <<>>
    /\ epsKm = 0
    /\ minSamples = 1
    /\ pc = "idle"
    /\ pointArgs = <<>>
    /\ result = NoResult
    /\ error = ""
    /\ ComplianceIdle
    /\ LimiterIdle
    /\ InvitesIdle

NextRequest == analyzeCompliance

\* Requests handled by analyzeCompliance.
SpecRequest == InitRequest /\ [][NextRequest]_vars

(***************************************************************************)
(* The mobile compliance routes: createComplianceReport                    *)
(* (src/src/controllers/compliance/CreateComplianceReport.ts) and          *)
(* getComplianceReportById (src/unnamed/part_001).  A URL is kept as the   *)
(* facts the validators read from its text.                                *)
(***************************************************************************)
NoUser == [kind |-> "undefined", _id |-> ""]
User(id) == [kind |-> "user", _id |-> id]

\* !user || !user._id is false
authenticated(user) == user.kind = "user" /\ user._id # ""

Uuids == {"agent-1-uuid", "agent-2-uuid"}

NoUrl == [kind |-> "undefined", empty |-> FALSE, wellFormed |-> FALSE, https |-> FALSE,
          storage |-> FALSE, bucket |-> FALSE, scans |-> FALSE, image |-> FALSE]

Url(wellFormed, https, storage, bucket, scans, image) ==
    [kind |-> "string", empty |-> FALSE, wellFormed |-> wellFormed, https |-> https,
     storage |-> storage, bucket |-> bucket, scans |-> scans, image |-> image]

EmptyUrl == [Url(FALSE, FALSE, FALSE, FALSE, FALSE, FALSE) EXCEPT !.empty = TRUE]

\* !url is false
given(url) == url.kind = "string" /\ ~url.empty

isValidUrl(url) ==
    /\ given(url)
    /\ url.storage
    /\ url.bucket
    /\ url.https

isValidScanUrl(url) == isValidUrl(url) /\ url.scans

hasValidImageExtension(url) == url.image

Valid == [valid |-> TRUE, error |-> ""]
Invalid(reason) == [valid |-> FALSE, error |-> reason]

validateScanUrls(frontUrl, backUrl) ==
    IF ~given(frontUrl) /\ ~given(backUrl)
    THEN Invalid("At least one scan image is required")
    ELSE IF given(frontUrl) /\ ~isValidUrl(frontUrl)
    THEN Invalid("Invalid Firebase Storage URL for front image")
    ELSE IF given(frontUrl) /\ ~isValidScanUrl(frontUrl)
    THEN Invalid("Front image must be uploaded to scans/ folder")
    ELSE IF given(frontUrl) /\ ~hasValidImageExtension(frontUrl)
    THEN Invalid("Front image URL must point to an image file")
    ELSE IF given(backUrl) /\ ~isValidUrl(backUrl)
    THEN Invalid("Invalid Firebase Storage URL for back image")
    ELSE IF given(backUrl) /\ ~isValidScanUrl(backUrl)
    THEN Invalid("Back image must be uploaded to scans/ folder")
    ELSE IF given(backUrl) /\ ~hasValidImageExtension(backUrl)
    THEN Invalid("Back image URL must point to an image file")
    ELSE Valid

\* z.string().url()
isUrlString(url) == url.kind = "string" /\ url.wellFormed

\* ComplianceReportValidation.parse succeeds
ComplianceReportValidation(reportData) ==
    /\ reportData.agentId \in Uuids
    /\ reportData.fields = "valid"
    /\ isUrlString(reportData.frontImageUrl)
    /\ isUrlString(reportData.backImageUrl)

nextCall(status, message) == [callee |-> "next", status |-> status, message |-> message]

parseCall(reportData) == [callee |-> "parse", reportData |-> reportData]

validateCall(frontUrl, backUrl) ==
    [callee |-> "validateScanUrls", frontUrl |-> frontUrl, backUrl |-> backUrl]

saveCall(report) == [callee |-> "save", report |-> report]

createLogCall(userId, reportId) ==
    [callee |-> "createLog", userId |-> userId, reportId |-> reportId]

findOneCall(id, agentId) == [callee |-> "findOne", _id |-> id, agentId |-> agentId]

frontValidationOf(validatedData) == validateScanUrls(validatedData.frontImageUrl, NoUrl)

backValidationOfFront(validatedData) == validateScanUrls(validatedData.frontImageUrl, NoUrl)

backValidationOf(validatedData) == validateScanUrls(NoUrl, validatedData.backImageUrl)

orMessage(reason, message) == IF reason = "" THEN message ELSE reason

\* The row complianceRepo.save inserts for the validated data.
savedReportOf(validatedData, rows) ==
    [_id |-> Len(rows) + 1, agentId |-> validatedData.agentId,
     frontImageUrl |-> validatedData.frontImageUrl,
     backImageUrl |-> validatedData.backImageUrl]

created(savedReport) ==
    [status |-> 201, success |-> TRUE,
     message |-> "Compliance report created successfully", data |-> savedReport]

Outcome(called, sent, rows, logs) ==
    [calls |-> called, responses |-> sent, complianceReports |-> rows, auditLogs |-> logs]

\* createComplianceReport, lines 17-94: what it calls, sends and stores.
createOutcome(request, rows, logs, fault) ==
    LET user == request.user
        reportData == [request.body EXCEPT !.agentId = user._id]
        frontValidation == frontValidationOf(reportData)
        backValidation == backValidationOf(reportData)
        savedReport == savedReportOf(reportData, rows)
        parsed == <<parseCall(reportData)>>
        frontChecked == Append(parsed, validateCall(reportData.frontImageUrl, NoUrl))
        backChecked == Append(frontChecked, validateCall(NoUrl, reportData.backImageUrl))
        saving == Append(backChecked, saveCall(savedReport))
        logging == Append(saving, createLogCall(user._id, savedReport._id))
        failed == nextCall(500, "Failed to create compliance report")
    IN IF ~authenticated(user)
       THEN Outcome(<<nextCall(401, "User not authenticated")>>, <<>>, rows, logs)
       ELSE IF ~ComplianceReportValidation(reportData)
       THEN Outcome(Append(parsed, nextCall(400, "Validation error")), <<>>, rows, logs)
       ELSE IF ~given(reportData.frontImageUrl) \/ ~given(reportData.backImageUrl)
       THEN Outcome(Append(parsed,
                           nextCall(400, "Both front and back image URLs are required")),
                    <<>>, rows, logs)
       ELSE IF ~frontValidation.valid
       THEN Outcome(Append(frontChecked,
                           nextCall(400, orMessage(frontValidation.error,
                                                   "Invalid front image URL"))),
                    <<>>, rows, logs)
       ELSE IF ~backValidation.valid
       THEN Outcome(Append(backChecked,
                           nextCall(400, orMessage(backValidation.error,
                                                   "Invalid back image URL"))),
                    <<>>, rows, logs)
       ELSE IF fault = "save"
       THEN Outcome(Append(saving, failed), <<>>, rows, logs)
       ELSE IF fault = "createLog"
       THEN Outcome(Append(logging, failed), <<>>, Append(rows, savedReport), logs)
       ELSE Outcome(logging, <<created(savedReport)>>, Append(rows, savedReport),
                    Append(logs, [userId |-> user._id, actionType |-> "COMPLIANCE_REPORT",
                                  reportId |-> savedReport._id]))

CreateRoute == "POST /compliance/report"

createComplianceReport ==
    /\ handlerPc = "request"
    /\ req.route = CreateRoute
    /\ \E outcome \in {createOutcome(req, complianceReports, auditLogs, faults)} :
          /\ calls' = calls \o outcome.calls
          /\ responses' = responses \o outcome.responses
          /\ complianceReports' = outcome.complianceReports
          /\ auditLogs' = outcome.auditLogs
    /\ handlerPc' = "responded"
    /\ UNCHANGED <<req, faults, query, store, turfMajor>>
    /\ UNCHANGED engineVars
    /\ UNCHANGED <<limiterVars, inviteVars>>

NoReport == [_id |-> 0, agentId |-> ""]

RECURSIVE findOneByIdOnly(_, _, _)
findOneByIdOnly(rows, id, agentId) ==
    IF rows = <<>> THEN NoReport
    ELSE IF Head(rows)._id = id THEN Head(rows)
    ELSE findOneByIdOnly(Tail(rows), id, agentId)

\* complianceRepo.findOne({where: {_id, agentId}})
RECURSIVE findOne(_, _, _)
findOne(rows, id, agentId) ==
    IF rows = <<>> THEN NoReport
    ELSE IF Head(rows)._id = id /\ Head(rows).agentId = agentId THEN Head(rows)
    ELSE findOne(Tail(rows), id, agentId)

fetched(report) == [status |-> 200, success |-> TRUE, data |-> report]

\* getComplianceReportById, lines 56-92: what it calls and sends.
fetchOutcome(request, rows, logs, fault) ==
    LET user == request.user
        reportId == request.params.id
        report == findOne(rows, reportId, user._id)
        looked == <<findOneCall(reportId, user._id)>>
    IN IF ~authenticated(user)
       THEN Outcome(<<nextCall(401, "User not authenticated")>>, <<>>, rows, logs)
       ELSE IF fault = "findOne"
       THEN Outcome(Append(looked, nextCall(500, "Connection terminated")), <<>>, rows, logs)
       ELSE IF report = NoReport
       THEN Outcome(Append(looked, nextCall(404, "Report not found")), <<>>, rows, logs)
       ELSE Outcome(looked, <<fetched(report)>>, rows, logs)

FetchRoute == "GET /compliance/reports/:id"

getComplianceReportById ==
    /\ handlerPc = "request"
    /\ req.route = FetchRoute
    /\ \E outcome \in {fetchOutcome(req, complianceReports, auditLogs, faults)} :
          /\ calls' = calls \o outcome.calls
          /\ responses' = responses \o outcome.responses
    /\ handlerPc' = "responded"
    /\ UNCHANGED <<req, complianceReports, auditLogs, faults, query, store, turfMajor>>
    /\ UNCHANGED engineVars
    /\ UNCHANGED <<limiterVars, inviteVars>>

(***************************************************************************)
(* Requests of the mobile compliance routes.  The user is missing, has no  *)
(* id, or is one of two agents or an account whose id is not a UUID; each  *)
(* image URL is missing, empty, malformed, or a well-formed URL that fails *)
(* one test of the validator or passes them all.  The repository holds one *)
(* report of each agent.                                                   *)
(***************************************************************************)
RequestUsers ==
    {NoUser, User(""), User("agent-1-uuid"), User("agent-2-uuid"), User("legacy-7")}

ScanUrl == Url(TRUE, TRUE, TRUE, TRUE, TRUE, TRUE)

ImageUrls ==
    {NoUrl, EmptyUrl,
     Url(FALSE, FALSE, TRUE, TRUE, TRUE, TRUE),
     Url(TRUE, FALSE, TRUE, TRUE, TRUE, TRUE),
     Url(TRUE, TRUE, FALSE, TRUE, TRUE, TRUE),
     Url(TRUE, TRUE, TRUE, FALSE, TRUE, TRUE),
     Url(TRUE, TRUE, TRUE, TRUE, FALSE, TRUE),
     Url(TRUE, TRUE, TRUE, TRUE, TRUE, FALSE),
     ScanUrl}

StoredComplianceReports ==
    <<[_id |-> 1, agentId |-> "agent-1-uuid", frontImageUrl |-> ScanUrl,
       backImageUrl |-> ScanUrl],
      [_id |-> 2, agentId |-> "agent-2-uuid", frontImageUrl |-> ScanUrl,
       backImageUrl |-> ScanUrl]>>

NoBody == [agentId |-> "", fields |-> "valid", frontImageUrl |-> NoUrl, backImageUrl |-> NoUrl]

CreateRequests ==
    {[route |-> CreateRoute, user |-> u, body |-> b, params |-> [id |-> 0]] :
        u \in RequestUsers,
        b \in [agentId : {"", "agent-2-uuid"}, fields : {"valid", "invalid"},
               frontImageUrl : ImageUrls, backImageUrl : ImageUrls]}

FetchRequests ==
    {[route |-> FetchRoute, user |-> u, body |-> NoBody, params |-> [id |-> i]] :
        u \in RequestUsers, i \in 1..(Len(StoredComplianceReports) + 1)}

InitCompliance ==
    /\ \/ req \in CreateRequests /\ faults \in {"none", "save", "createLog"}
       \/ req \in FetchRequests /\ faults \in {"none", "findOne"}
    /\ complianceReports = StoredComplianceReports
    /\ auditLogs = <<>>
    /\ handlerPc = "request"
    /\ responses = <<>>
    /\ calls = <<>>
    /\ EngineIdle
    /\ LimiterIdle
    /\ InvitesIdle

NextCompliance == createComplianceReport \/ getComplianceReportById

\* Requests handled by the mobile compliance routes.
SpecCompliance == InitCompliance /\ [][NextCompliance]_vars

(***************************************************************************)
(* The rate limiter, rateLimit of src/unnamed/part_003.  Time is counted   *)
(* in units of fifteen minutes from the moment the module was loaded.      *)
(***************************************************************************)
WINDOWMS == 1        \* 15 * 60 * 1000 ms, in units of fifteen minutes
MAXREQUESTS == 3     \* requests admitted per window (10000 in the source)
MaxTime == 2         \* the clock runs over 0..MaxTime
MaxHandled == 5      \* up to MaxHandled requests pass through the limiter

\* req.ip || 'unknown'
ipOf(request) == IF request.ip = "" THEN "unknown" ELSE request.ip

mapSet(map, key, value) ==
    [k \in (DOMAIN map) \cup {key} |-> IF k = key THEN value ELSE map[k]]

passedOn(headers) == [callee |-> "next", status |-> 0, message |-> "", headers |-> headers]

tooManyRequests(headers) ==
    [callee |-> "next", status |-> 429,
     message |-> "Too many requests. Please try again later.", headers |-> headers]

rateLimitHeaders(remaining, reset) ==
    [limit |-> MAXREQUESTS, remaining |-> remaining, reset |-> reset]

\* the window test of line 46, reading the clock at the time of the request
windowExpiredAt(time, currentData) == time > currentData.resetTime

\* the window test of line 46
windowExpired(time, currentData) == NOW > currentData.resetTime

\* rateLimit, lines 39-77, for one request.
rateLimit ==
    /\ Len(calls) < MaxHandled
    /\ \E request \in {[route |-> "rateLimit", ip |-> a] : a \in {"", "10.0.0.1", "10.0.0.2"}} :
          LET ip == ipOf(request)
              known == ip \in DOMAIN requestCounts
              currentData == requestCounts[ip]
          IN /\ req' = request
             /\ IF ~known \/ windowExpired(now, currentData)
                THEN /\ requestCounts' =
                            mapSet(requestCounts, ip,
                                   [count |-> 1, resetTime |-> NOW + WINDOWMS])
                     /\ calls' = Append(calls, passedOn(rateLimitHeaders(MAXREQUESTS - 1,
                                                                         NOW + WINDOWMS)))
                ELSE IF currentData.count >= MAXREQUESTS
                THEN /\ requestCounts' = requestCounts
                     /\ calls' = Append(calls,
                                        tooManyRequests([retryAfter |->
                                                            currentData.resetTime - NOW]))
                ELSE /\ requestCounts' =
                            mapSet(requestCounts, ip,
                                   [currentData EXCEPT !.count = currentData.count + 1])
                     /\ calls' = Append(calls,
                                        passedOn(rateLimitHeaders(
                                                    MAXREQUESTS - (currentData.count + 1),
                                                    currentData.resetTime)))
    /\ UNCHANGED <<now, complianceReports, auditLogs, faults>>
    /\ UNCHANGED <<query, store, handlerPc, responses, turfMajor>>
    /\ UNCHANGED engineVars
    /\ UNCHANGED inviteVars

\* One unit of time passes.
tick ==
    /\ now < MaxTime
    /\ now' = now + 1
    /\ UNCHANGED requestCounts
    /\ UNCHANGED handlerVars
    /\ UNCHANGED engineVars
    /\ UNCHANGED turfMajor
    /\ UNCHANGED <<complianceVars, inviteVars>>

InitRateLimit ==
    /\ LimiterIdle
    /\ handlerPc = "idle"
    /\ responses = <<>>
    /\ calls = <<>>
    /\ EngineIdle
    /\ ComplianceIdle
    /\ InvitesIdle

NextRateLimit == rateLimit \/ tick

\* Requests passing through the rate limiter while time passes.
SpecRateLimit == InitRateLimit /\ [][NextRateLimit]_vars

(***************************************************************************)
(* The invitation controller of src/unnamed/part_000 with the AdminInvite  *)
(* entity of src/unnamed/part_010 and the User entity of                   *)
(* src/unnamed/part_013.  The _id of a row is its position in the table;   *)
(* the token of an invite is written as its _id.  Time is counted in weeks *)
(* here.  A handler runs as one step; createAdminInvite and updateInvite   *)
(* are also given in two steps, suspended between their lookups and their  *)
(* save, where other requests run.                                         *)
(***************************************************************************)
SevenDays == 1       \* 7 * 24 * 60 * 60 * 1000 ms, in weeks
MaxInvites == 2      \* concurrent requests: up to MaxInvites invites are created
MaxSerialInvites == 1  \* requests one after the other: up to MaxSerialInvites invites
MaxInflight == 2     \* up to MaxInflight requests are suspended at a time

Emails == {"a@rcv", "b@rcv"}

Badges == {"B-1", "B-2"}

Admin == [role |-> "ADMIN", isSuperAdmin |-> FALSE]

Agent == [role |-> "AGENT", isSuperAdmin |-> FALSE]

\* adminUser.role !== 'ADMIN' && !adminUser.isSuperAdmin
notAdministrator(adminUser) == adminUser.role # "ADMIN" /\ ~adminUser.isSuperAdmin

json(status, message) == [status |-> status, success |-> status < 400, message |-> message]

\* Repo.findOne({where}): the _id of the first of the rows that pass, 0 for null
firstOf(found) ==
    IF found = {} THEN 0 ELSE CHOOSE k \in found : \A j \in found : k <= j

\* Repo.save of a loaded entity: the row with its _id becomes the entity
saveInvite(rows, invite) == [rows EXCEPT ![invite._id] = invite]

\* Repo.save of a new AdminInvite, with assignIdAndToken
insertInvite(rows, invite, time) ==
    Append(rows, [_id |-> Len(rows) + 1, token |-> Len(rows) + 1, email |-> invite.email,
                  badgeId |-> invite.badgeId, status |-> invite.status, userId |-> 0,
                  expiresAt |-> time + SevenDays])

suspended(handler, invite) == [handler |-> handler, invite |-> invite]

remove(seq, k) == SubSeq(seq, 1, k - 1) \o SubSeq(seq, k + 1, Len(seq))

inviteUnchanged == UNCHANGED <<engineVars, turfMajor, query, store, handlerPc,
                               complianceReports, auditLogs, faults, requestCounts, now>>

InviteRequests ==
    [route : {"createAdminInvite"}, user : {Admin, Agent},
     body : [badgeId : Badges \cup {""}, email : Emails \cup {""}]]

\* createAdminInvite, lines 15-67: the response of a failed check, none when
\* the checks pass.
createRejected(request) ==
    LET badgeId == request.body.badgeId
        email == request.body.email
        existingInvite ==
            firstOf({k \in 1..Len(invites) :
                        invites[k].email = email /\ invites[k].status = "pending"})
        existingUser == firstOf({k \in 1..Len(users) : users[k].badgeId = badgeId})
        existingEmailUser == firstOf({k \in 1..Len(users) : users[k].email = email})
    IN IF badgeId = "" \/ email = ""
       THEN <<json(400, "Badge ID and email are required")>>
       ELSE IF notAdministrator(request.user)
       THEN <<json(403, "Only administrators can invite agents")>>
       ELSE IF existingInvite # 0
       THEN <<json(400, "An invite is already pending for this email address")>>
       ELSE IF existingUser # 0
       THEN <<json(400, "This badge ID is already registered in the system")>>
       ELSE IF existingEmailUser # 0
       THEN <<json(400, "This email is already registered in the system")>>
       ELSE <<>>

\* lines 69-77
newInvite(request) ==
    [email |-> request.body.email, badgeId |-> request.body.badgeId, status |-> "pending"]

invitationCreated == json(201, "Invitation created successfully")

\* createAdminInvite, lines 13-156, when no other request runs during its awaits.
createAdminInvite ==
    /\ Len(invites) < MaxSerialInvites
    /\ \E request \in InviteRequests :
          \E rejected \in {createRejected(request)} :
             /\ req' = request
             /\ IF rejected # <<>>
                THEN /\ responses' = rejected
                     /\ invites' = invites
                ELSE /\ responses' = <<invitationCreated>>
                     /\ invites' = insertInvite(invites, newInvite(request), now)
    /\ calls' = <<>>
    /\ UNCHANGED <<users, inflight>>
    /\ inviteUnchanged

\* createAdminInvite, lines 13-67: the lookups, after which the request is
\* suspended.
createAdminInviteLookup ==
    /\ Len(inflight) < MaxInflight
    /\ Len(invites) + Cardinality({k \in 1..Len(inflight) :
                                    inflight[k].handler = "createAdminInvite"}) < MaxInvites
    /\ \E request \in InviteRequests :
          \E rejected \in {createRejected(request)} :
             /\ req' = request
             /\ responses' = rejected
             /\ inflight' =
                   IF rejected # <<>> THEN inflight
                   ELSE Append(inflight, suspended("createAdminInvite", newInvite(request)))
    /\ calls' = <<>>
    /\ UNCHANGED <<invites, users>>
    /\ inviteUnchanged

\* createAdminInvite, lines 69-147: the invite is saved and the request answered.
createAdminInviteSave ==
    /\ \E k \in 1..Len(inflight) :
          /\ inflight[k].handler = "createAdminInvite"
          /\ invites' = insertInvite(invites, inflight[k].invite, now)
          /\ inflight' = remove(inflight, k)
    /\ responses' = <<invitationCreated>>
    /\ UNCHANGED <<req, calls, users>>
    /\ inviteUnchanged

dateCall(time) == [callee |-> "Date", value |-> time]

\* invite.expiresAt && new Date() > invite.expiresAt
expired(invite, time) == time > invite.expiresAt

\* verifyInviteToken, lines 162-235.
verifyInviteToken ==
    /\ \E request \in [route : {"verifyInviteToken"}, params : [token : 1..MaxInvites]] :
          LET invite == firstOf({k \in 1..Len(invites) : invites[k].token = request.params.token})
              status == invites[invite].status
          IN /\ req' = request
             /\ calls' = IF invite = 0 THEN <<>> ELSE <<dateCall(now)>>
             /\ responses' =
                   IF invite = 0 THEN <<json(404, "Invalid invitation link")>>
                   ELSE IF expired(invites[invite], now)
                   THEN <<json(400, "This invitation has expired")>>
                   ELSE IF status = "approved"
                   THEN <<json(400, "This invitation has already been used")>>
                   ELSE IF status = "rejected"
                   THEN <<json(400, "This invitation was rejected")>>
                   ELSE IF status = "revoked"
                   THEN <<json(400, "This invitation has been revoked by the administrator")>>
                   ELSE IF status = "archived"
                   THEN <<json(400, "This invitation is no longer active")>>
                   ELSE <<[status |-> 200, success |-> TRUE, message |-> "",
                           invite |-> [_id |-> invite, status |-> status]]>>
    /\ UNCHANGED <<invites, users, inflight>>
    /\ inviteUnchanged

\* completeRegistration, lines 297-418.
completeRegistration ==
    /\ \E request \in [route : {"completeRegistration"},
                       body : [token : 0..MaxInvites, badgeId : Badges \cup {""},
                               fields : {"complete", "incomplete", "no documents"}]] :
          LET token == request.body.token
              invite == firstOf({k \in 1..Len(invites) : invites[k].token = token})
              found == invites[invite]
              rejected ==
                  IF token = 0 THEN <<json(400, "Invitation token is required")>>
                  ELSE IF invite = 0 THEN <<json(404, "Invalid invitation")>>
                  ELSE IF found.status # "pending" /\ found.status # "badge_verified"
                  THEN <<json(400, "This invitation has already been processed")>>
                  ELSE IF request.body.badgeId = "" \/ found.badgeId # request.body.badgeId
                  THEN <<json(400, "Badge number verification failed")>>
                  ELSE IF request.body.fields = "incomplete"
                  THEN <<json(400, "All required fields must be filled")>>
                  ELSE IF request.body.fields = "no documents"
                  THEN <<json(400,
                              "ID document and selfie with ID are required for verification")>>
                  ELSE IF firstOf({k \in 1..Len(users) : users[k].email = found.email}) # 0
                  THEN <<json(500, "duplicate key value violates unique constraint")>>
                  ELSE <<>>
              user == [_id |-> Len(users) + 1, email |-> found.email,
                       badgeId |-> found.badgeId, approved |-> FALSE, status |-> "Pending"]
          IN /\ req' = request
             /\ IF rejected # <<>>
                THEN /\ responses' = rejected
                     /\ UNCHANGED <<invites, users>>
                ELSE /\ responses' =
                           <<json(201, "Registration completed. Your account is pending admin approval.")>>
                     /\ users' = Append(users, user)
                     /\ invites' = saveInvite(invites, [found EXCEPT !.status = "registered",
                                                                     !.userId = user._id])
    /\ calls' = <<>>
    /\ UNCHANGED inflight
    /\ inviteUnchanged

AdminRequests(route) ==
    [route : {route}, user : {Admin, Agent}, params : [inviteId : 1..MaxInvites]]

RejectRequests ==
    [route : {"rejectAgent"}, user : {Admin, Agent}, params : [inviteId : 1..MaxInvites],
     body : [rejectionReason : {"", "documents unreadable"}]]

\* approveAgent, lines 495-594.
approveAgent ==
    /\ \E request \in AdminRequests("approveAgent") :
          LET invite == firstOf({k \in 1..Len(invites) : invites[k]._id = request.params.inviteId})
              found == invites[invite]
              user == firstOf({k \in 1..Len(users) : users[k]._id = found.userId})
              rejected ==
                  IF notAdministrator(request.user) THEN <<json(403, "Access denied")>>
                  ELSE IF invite = 0 THEN <<json(404, "Invitation not found")>>
                  ELSE IF found.status # "registered"
                  THEN <<json(400, "This invitation cannot be approved")>>
                  ELSE IF found.userId = 0
                  THEN <<json(400, "No user associated with this invitation")>>
                  ELSE <<>>
          IN /\ req' = request
             /\ IF rejected # <<>>
                THEN /\ responses' = rejected
                     /\ UNCHANGED <<invites, users>>
                ELSE /\ responses' = <<json(200, "Agent approved successfully")>>
                     /\ users' = IF user = 0 THEN users
                                 ELSE [users EXCEPT ![user].approved = TRUE,
                                                    ![user].status = "Active"]
                     /\ invites' = saveInvite(invites, [found EXCEPT !.status = "approved"])
    /\ calls' = <<>>
    /\ UNCHANGED inflight
    /\ inviteUnchanged

\* the user of a rejected invite after lines 633-639
rejectedUser(user) == [user EXCEPT !.status = "Archived"]

\* rejectAgent, lines 596-690.
rejectAgent ==
    /\ \E request \in RejectRequests :
          LET invite == firstOf({k \in 1..Len(invites) : invites[k]._id = request.params.inviteId})
              found == invites[invite]
              user == firstOf({k \in 1..Len(users) : users[k]._id = found.userId})
              rejected ==
                  IF notAdministrator(request.user) THEN <<json(403, "Access denied")>>
                  ELSE IF request.body.rejectionReason = ""
                  THEN <<json(400, "Rejection reason is required")>>
                  ELSE IF invite = 0 THEN <<json(404, "Invitation not found")>>
                  ELSE <<>>
          IN /\ req' = request
             /\ IF rejected # <<>>
                THEN /\ responses' = rejected
                     /\ UNCHANGED <<invites, users>>
                ELSE /\ responses' = <<json(200, "Agent registration rejected")>>
                     /\ invites' = saveInvite(invites, [found EXCEPT !.status = "rejected"])
                     /\ users' = IF found.userId = 0 \/ user = 0 THEN users
                                 ELSE [users EXCEPT ![user] = rejectedUser(users[user])]
    /\ calls' = <<>>
    /\ UNCHANGED inflight
    /\ inviteUnchanged

\* revokeInvite, lines 830-876.
revokeInvite ==
    /\ \E request \in AdminRequests("revokeInvite") :
          LET invite == firstOf({k \in 1..Len(invites) : invites[k]._id = request.params.inviteId})
              found == invites[invite]
              rejected ==
                  IF notAdministrator(request.user) THEN <<json(403, "Access denied")>>
                  ELSE IF invite = 0 THEN <<json(404, "Invitation not found")>>
                  ELSE IF found.status \notin {"pending", "badge_verified"}
                  THEN <<json(400, "Can only revoke pending or badge verified invitations")>>
                  ELSE <<>>
          IN /\ req' = request
             /\ IF rejected # <<>>
                THEN /\ responses' = rejected
                     /\ UNCHANGED invites
                ELSE /\ responses' = <<json(200, "Invitation revoked successfully")>>
                     /\ invites' = saveInvite(invites, [found EXCEPT !.status = "revoked"])
    /\ calls' = <<>>
    /\ UNCHANGED <<users, inflight>>
    /\ inviteUnchanged

\* archiveInvite, lines 882-920.
archiveInvite ==
    /\ \E request \in AdminRequests("archiveInvite") :
          LET invite == firstOf({k \in 1..Len(invites) : invites[k]._id = request.params.inviteId})
              found == invites[invite]
              rejected ==
                  IF notAdministrator(request.user) THEN <<json(403, "Access denied")>>
                  ELSE IF invite = 0 THEN <<json(404, "Invitation not found")>>
                  ELSE <<>>
          IN /\ req' = request
             /\ IF rejected # <<>>
                THEN /\ responses' = rejected
                     /\ UNCHANGED invites
                ELSE /\ responses' = <<json(200, "Invitation archived successfully")>>
                     /\ invites' = saveInvite(invites, [found EXCEPT !.status = "archived"])
    /\ calls' = <<>>
    /\ UNCHANGED <<users, inflight>>
    /\ inviteUnchanged

\* updateInvite, lines 926-1024: the checks and the changes made to the loaded
\* entity, after which the request is suspended.
updateInviteLookup ==
    /\ Len(inflight) < MaxInflight
    /\ \E request \in [route : {"updateInvite"}, user : {Admin, Agent},
                       params : [inviteId : 1..MaxInvites],
                       body : [badgeId : Badges \cup {""}, email : Emails \cup {""}]] :
          LET inviteId == request.params.inviteId
              badgeId == request.body.badgeId
              email == request.body.email
              invite == firstOf({k \in 1..Len(invites) : invites[k]._id = inviteId})
              found == invites[invite]
              badgeChanged == badgeId # "" /\ badgeId # found.badgeId
              emailChanged == email # "" /\ email # found.email
              existingUser == firstOf({k \in 1..Len(users) : users[k].badgeId = badgeId})
              existingInvite == firstOf({k \in 1..Len(invites) : invites[k].badgeId = badgeId})
              existingEmailUser == firstOf({k \in 1..Len(users) : users[k].email = email})
              existingEmailInvite ==
                  firstOf({k \in 1..Len(invites) :
                        invites[k].email = email /\ invites[k].status = "pending"})
              rejected ==
                  IF notAdministrator(request.user) THEN <<json(403, "Access denied")>>
                  ELSE IF invite = 0 THEN <<json(404, "Invitation not found")>>
                  ELSE IF found.status \notin {"pending", "badge_verified"}
                  THEN <<json(400, "Can only update pending or badge verified invitations")>>
                  ELSE IF badgeChanged /\ existingUser # 0
                  THEN <<json(400, "This badge ID is already registered in the system")>>
                  ELSE IF badgeChanged /\ existingInvite # 0 /\ existingInvite # inviteId
                  THEN <<json(400, "This badge ID is already used in another invitation")>>
                  ELSE IF emailChanged /\ existingEmailUser # 0
                  THEN <<json(400, "This email is already registered in the system")>>
                  ELSE IF emailChanged /\ existingEmailInvite # 0
                                       /\ existingEmailInvite # inviteId
                  THEN <<json(400, "An invite is already pending for this email address")>>
                  ELSE <<>>
              updated ==
                  [found EXCEPT !.badgeId = IF badgeChanged THEN badgeId ELSE @,
                                !.status = IF badgeChanged /\ @ = "badge_verified"
                                           THEN "pending" ELSE @,
                                !.email = IF emailChanged THEN email ELSE @]
          IN /\ req' = request
             /\ responses' = rejected
             /\ inflight' = IF rejected # <<>> THEN inflight
                            ELSE Append(inflight, suspended("updateInvite", updated))
    /\ calls' = <<>>
    /\ UNCHANGED <<invites, users>>
    /\ inviteUnchanged

\* updateInvite, lines 1026-1038: the entity is saved and the request answered.
updateInviteSave ==
    /\ \E k \in 1..Len(inflight) :
          /\ inflight[k].handler = "updateInvite"
          /\ invites' = saveInvite(invites, inflight[k].invite)
          /\ inflight' = remove(inflight, k)
    /\ responses' = <<json(200, "Invitation updated successfully")>>
    /\ UNCHANGED <<req, calls, users>>
    /\ inviteUnchanged

InitInvite ==
    /\ InvitesIdle
    /\ LimiterIdle
    /\ ComplianceIdle
    /\ EngineIdle
    /\ handlerPc = "idle"
    /\ responses = <<>>
    /\ calls = <<>>

NextInvite ==
    \/ createAdminInvite
    \/ verifyInviteToken
    \/ completeRegistration
    \/ approveAgent
    \/ rejectAgent
    \/ revokeInvite
    \/ archiveInvite
    \/ tick

\* Invitation requests handled one after the other while time passes.
SpecInvite == InitInvite /\ [][NextInvite]_vars

NextInviteRace ==
    \/ createAdminInviteLookup
    \/ createAdminInviteSave
    \/ updateInviteLookup
    \/ updateInviteSave
    \/ revokeInvite

\* Concurrent createAdminInvite and updateInvite requests, their saves
\* interleaved with the lookups of the others; revokeInvite ends pending invites.
SpecInviteRace == InitInvite /\ [][NextInviteRace]_vars

(***************************************************************************)
(* Vocabulary of the properties.  View tabulates, for the call of the      *)
(* current state, the filtered batch, the neighbourhoods and core points   *)
(* computed from the coordinates, and the membership read back from the    *)
(* returned result.                                                        *)
(***************************************************************************)
MemberIds(info) == {info.points[i].report._id : i \in 1..Len(info.points)}

NoiseIds(res) == {res.noise_points[i].report._id : i \in 1..Len(res.noise_points)}

\* How many cluster or noise entries of res carry the report with this _id.
Occurrences(res, id) ==
    Cardinality(UNION {{<<e, i>> : i \in {i \in 1..Len(res.clusters[e].points) :
                                            res.clusters[e].points[i].report._id = id}} :
                       e \in 1..Len(res.clusters)})
    + Cardinality({i \in 1..Len(res.noise_points) : res.noise_points[i].report._id = id})

RECURSIVE SumSizes(_, _)
SumSizes(infos, k) ==
    IF k > Len(infos) THEN 0 ELSE infos[k].size + SumSizes(infos, k + 1)

\* cluster_id of the cluster holding the report with this _id, NoCluster when none does.
ClusterIdOf(res, members, id) ==
    IF \E e \in 1..Len(res.clusters) : id \in members[e]
    THEN res.clusters[CHOOSE e \in 1..Len(res.clusters) : id \in members[e]].cluster_id
    ELSE NoCluster

View ==
    LET rwl == reportsWithLocation(reports)
        n == Len(rwl)
        coords == [k \in 1..n |-> <<rwl[k].location.longitude.val, rwl[k].location.latitude.val>>]
        nbr == [k \in 1..n |-> {j \in 1..n : withinEps(coords[k], coords[j], epsKm, turfMajor)}]
        members == [e \in 1..Len(result.clusters) |-> MemberIds(result.clusters[e])]
    IN [rwl |-> rwl,
        valid |-> 1..n,
        nbr |-> nbr,
        core |-> [k \in 1..n |-> Cardinality(nbr[k]) >= minSamples],
        cid |-> [k \in 1..n |-> ClusterIdOf(result, members, rwl[k]._id)],
        noise |-> {k \in 1..n : rwl[k]._id \in NoiseIds(result)},
        members |-> [e \in 1..Len(result.clusters) |-> {k \in 1..n : rwl[k]._id \in members[e]}]]

Returned == pc = "returned"

(***************************************************************************)
(* C1: after a successful call every report that passes the coordinate     *)
(* filter appears exactly once across all clusters' points and the noise   *)
(* list (so never in two clusters, never in a cluster and in the noise).   *)
(***************************************************************************)
C1_ExactlyOnce ==
    Returned =>
        LET rwl == reportsWithLocation(reports)
        IN \A k \in 1..Len(rwl) : Occurrences(result, rwl[k]._id) = 1

\* A successful call that produced two clusters and a noise point.
C1_Witness ==
    /\ Returned
    /\ Len(result.clusters) >= 2
    /\ Len(result.noise_points) >= 1

(***************************************************************************)
(* C2: after a successful call summary.total_points equals the sum of the  *)
(* cluster sizes plus the length of noise_points, and n_noise_points is    *)
(* that length.                                                            *)
(***************************************************************************)
C2_Conservation ==
    Returned =>
        /\ result.summary.total_points
              = SumSizes(result.clusters, 1) + Len(result.noise_points)
        /\ result.summary.n_noise_points = Len(result.noise_points)

\* A successful call on a batch from which the filter removed a report and
\* whose remaining reports were clustered.
C2_Witness ==
    /\ Returned
    /\ Len(reportsWithLocation(reports)) < Len(reports)
    /\ Len(result.clusters) >= 1

(***************************************************************************)
(* C3 (as stated): every returned cluster has size >= minPoints, whatever  *)
(* the order of the points.                                                *)
(***************************************************************************)
C3_SizeAtLeastMinPoints ==
    Returned => \A e \in 1..Len(result.clusters) : result.clusters[e].size >= minSamples

(***************************************************************************)
(* C3 (amended): every returned cluster holds a core point p; each point   *)
(* within epsilonKm of p that the cluster does not hold is a non-core      *)
(* point held by a cluster discovered earlier (smaller cluster_id), and    *)
(* the cluster's size plus the number of those points is >= minPoints.  So *)
(* the cluster with cluster_id 0 has size >= minPoints.                    *)
(***************************************************************************)
C3_SizeFloorUpToTakenBorders ==
    Returned =>
        LET v == View
        IN \A e \in 1..Len(result.clusters) :
              LET c == result.clusters[e]
              IN /\ c.size >= 1
                 /\ c.cluster_id = 0 => c.size >= minSamples
                 /\ \E p \in v.members[e] :
                       /\ v.core[p]
                       /\ LET taken == {q \in v.nbr[p] : v.cid[q] # c.cluster_id}
                          IN /\ \A q \in taken :
                                   /\ ~v.core[q]
                                   /\ v.cid[q] # NoCluster
                                   /\ v.cid[q] < c.cluster_id
                             /\ c.size + Cardinality(taken) >= minSamples

\* A successful call that returned a cluster smaller than minPoints.
C3_Witness ==
    /\ Returned
    /\ \E e \in 1..Len(result.clusters) : result.clusters[e].size < minSamples

(***************************************************************************)
(* C4: a valid point is in noise_points iff it is not a core point and no  *)
(* core point lies within epsilonKm of it; every other valid point is a    *)
(* member of some cluster.                                                 *)
(***************************************************************************)
C4_NoiseIffNoCoreNearby ==
    Returned =>
        LET v == View
        IN \A k \in v.valid :
              /\ (k \in v.noise) <=> (~v.core[k] /\ \A j \in v.nbr[k] : ~v.core[j])
              /\ (k \notin v.noise) => v.cid[k] # NoCluster

\* A successful call with a noise point that has a (non-core) neighbour other
\* than itself, and with a non-core point absorbed into a cluster.
C4_Witness ==
    /\ Returned
    /\ LET v == View
       IN /\ \E k \in v.noise : Cardinality(v.nbr[k]) >= 2
          /\ \E k \in v.valid : ~v.core[k] /\ v.cid[k] # NoCluster

(***************************************************************************)
(* C5: two core points are in the same cluster iff a chain of core points, *)
(* each within epsilonKm of the next, links them; every core point is in a *)
(* cluster.                                                                *)
(***************************************************************************)
RECURSIVE CoreChain(_, _)
CoreChain(v, reached) ==
    LET more == reached \cup {j \in v.valid : v.core[j] /\ v.nbr[j] \cap reached # {}}
    IN IF more = reached THEN reached ELSE CoreChain(v, more)

C5_CoresShareClusterIffChained ==
    Returned =>
        LET v == View
            cores == {k \in v.valid : v.core[k]}
        IN \A p \in cores :
              /\ v.cid[p] # NoCluster
              /\ LET chain == CoreChain(v, {p})
                 IN \A q \in cores : (v.cid[q] = v.cid[p]) <=> (q \in chain)

\* A successful call where two core points that are not within epsilonKm of
\* each other share a cluster, and two other core points do not.
C5_Witness ==
    /\ Returned
    /\ LET v == View
       IN /\ \E p, q \in v.valid :
                /\ v.core[p] /\ v.core[q] /\ q \notin v.nbr[p]
                /\ v.cid[p] = v.cid[q]
          /\ \E p, q \in v.valid :
                /\ v.core[p] /\ v.core[q]
                /\ v.cid[p] # v.cid[q]

(***************************************************************************)
(* C6: a non-core point within epsilonKm of core points is a member of     *)
(* exactly one cluster: among the clusters of those core points, the one   *)
(* discovered first (the one whose first core point comes first in the     *)
(* filtered input).                                                        *)
(***************************************************************************)
FirstCoreOf(v, id) ==
    CHOOSE k \in v.valid :
        /\ v.core[k] /\ v.cid[k] = id
        /\ \A j \in v.valid : (v.core[j] /\ v.cid[j] = id) => k <= j

C6_BorderStaysWithFirstCluster ==
    Returned =>
        LET v == View
        IN \A b \in v.valid :
              LET near == {v.cid[c] : c \in {j \in v.nbr[b] : v.core[j]}}
              IN (~v.core[b] /\ near # {}) =>
                    /\ Occurrences(result, v.rwl[b]._id) = 1
                    /\ v.cid[b] # NoCluster
                    /\ v.cid[b] \in near
                    /\ \A other \in near :
                          FirstCoreOf(v, v.cid[b]) <= FirstCoreOf(v, other)

\* A successful call with a non-core point within epsilonKm of core points of
\* two different clusters.
C6_Witness ==
    /\ Returned
    /\ LET v == View
       IN \E b \in v.valid :
             /\ ~v.core[b]
             /\ \E c1, c2 \in v.nbr[b] :
                   /\ v.core[c1] /\ v.core[c2]
                   /\ v.cid[c1] # v.cid[c2]

(***************************************************************************)
(* C7: with the reports and minPoints fixed, increasing epsilonKm never    *)
(* increases the number of noise points.  Checked step by step: the noise  *)
(* count of a call with epsilonKm = e >= 1 is <= the noise count of the    *)
(* same call with e - 1, which gives eps1 <= eps2 by chaining.             *)
(***************************************************************************)
NoiseCountAt(eps1) ==
    LET rwl == reportsWithLocation(reports)
    IN analysisResults(reports, rwl, eps1, minSamples, turfMajor).summary.n_noise_points

C7_NoiseMonotoneInEps ==
    (Returned /\ epsKm >= 1) =>
        result.summary.n_noise_points <= NoiseCountAt(epsKm - 1)

\* A successful call whose noise count is strictly below the one of the next
\* smaller epsilonKm, with some noise left and a cluster formed.
C7_Witness ==
    /\ Returned
    /\ epsKm >= 1
    /\ result.summary.n_noise_points >= 1
    /\ Len(result.clusters) >= 1
    /\ result.summary.n_noise_points < NoiseCountAt(epsKm - 1)

(***************************************************************************)
(* C9 (as stated): a report whose latitude or longitude is null, undefined *)
(* or NaN is removed before clustering: it is never handed to the point    *)
(* construction, is in no cluster and not in the noise list, does not      *)
(* count toward total_points, and the remaining reports are analysed.      *)
(***************************************************************************)
Unusable(report) ==
    \/ ~report.location.present
    \/ report.location.latitude.kind # "number"
    \/ report.location.longitude.kind # "number"

C9_InvalidCoordinatesFiltered ==
    (pc # "call") =>
        LET usable(r) == ~Unusable(r)
            kept == SelectSeq(reports, usable)
        IN /\ \A i \in 1..Len(pointArgs) :
                 pointArgs[i][1].kind = "number" /\ pointArgs[i][2].kind = "number"
           /\ Len(kept) > 0 =>
                 /\ Returned
                 /\ result.summary.total_points = Len(kept)
                 /\ \A k \in 1..Len(reports) :
                       Unusable(reports[k]) => Occurrences(result, reports[k]._id) = 0

(***************************************************************************)
(* C10: when no report passes the coordinate filter the call throws the    *)
(* empty-input error and produces no result; no returned result has        *)
(* total_points = 0.                                                       *)
(***************************************************************************)
C10_EmptyInputThrows ==
    /\ (pc # "call" /\ Len(reportsWithLocation(reports)) = 0) =>
          /\ pc = "thrown"
          /\ error = "No reports with valid location data found"
          /\ result = NoResult
    /\ Returned => result.summary.total_points # 0

\* A call on a non-empty batch that threw the empty-input error.
C10_Witness ==
    /\ pc = "thrown"
    /\ Len(reports) >= 2
    /\ Len(reportsWithLocation(reports)) = 0
    /\ error = "No reports with valid location data found"

(***************************************************************************)
(* C11: in every result the clusters list is sorted by size in             *)
(* non-increasing order: clusters[i].size >= clusters[i+1].size.           *)
(***************************************************************************)
C11_SortedBySize ==
    Returned =>
        \A i \in 1..(Len(result.clusters) - 1) :
            result.clusters[i].size >= result.clusters[i + 1].size

\* A successful call where a larger cluster discovered later is listed ahead
\* of a smaller one discovered earlier.
C11_Witness ==
    /\ Returned
    /\ \E i \in 1..(Len(result.clusters) - 1) :
          /\ result.clusters[i].size > result.clusters[i + 1].size
          /\ result.clusters[i].cluster_id > result.clusters[i + 1].cluster_id

(***************************************************************************)
(* C12 (as stated): of two clusters of the same size, the one discovered   *)
(* earlier (smaller cluster_id) comes first in the clusters list.          *)
(***************************************************************************)
C12_TiesKeepDiscoveryOrder ==
    Returned =>
        \A i, j \in 1..Len(result.clusters) :
            (i < j /\ result.clusters[i].size = result.clusters[j].size)
                => result.clusters[i].cluster_id < result.clusters[j].cluster_id

(***************************************************************************)
(* C12 (amended): of two clusters of the same size, the one whose earliest *)
(* member in the filtered input comes first is listed first.  That is the  *)
(* cluster discovered earlier, except when the earliest member of the      *)
(* later-discovered cluster is a non-core point that precedes every member *)
(* of the other cluster.                                                   *)
(***************************************************************************)
C12_TiesKeepFirstMemberOrder ==
    Returned =>
        LET v == View
            first(e) == result.clusters[e].points[1].index + 1
        IN \A i, j \in 1..Len(result.clusters) :
              (i < j /\ result.clusters[i].size = result.clusters[j].size) =>
                  /\ \A m \in v.members[i] : first(i) <= m
                  /\ \A m \in v.members[j] : first(i) < m
                  /\ result.clusters[i].cluster_id > result.clusters[j].cluster_id
                        => ~v.core[first(i)]

\* A successful call that lists a cluster ahead of an equally large one
\* discovered before it.
C12_Witness ==
    /\ Returned
    /\ \E i, j \in 1..Len(result.clusters) :
          /\ i < j
          /\ result.clusters[i].size = result.clusters[j].size
          /\ result.clusters[i].cluster_id > result.clusters[j].cluster_id

(***************************************************************************)
(* C13: the cluster identifiers of a result are exactly 0 .. n_clusters-1, *)
(* and the first core point (in filtered-input order) of cluster k comes   *)
(* before the first core point of cluster k+1.                             *)
(***************************************************************************)
C13_IdsSequentialInDiscoveryOrder ==
    Returned =>
        LET v == View
            ids == {result.clusters[e].cluster_id : e \in 1..Len(result.clusters)}
        IN /\ result.summary.n_clusters = Len(result.clusters)
           /\ Cardinality(ids) = Len(result.clusters)
           /\ ids = 0..(result.summary.n_clusters - 1)
           /\ \A k \in ids : (k + 1) \in ids => FirstCoreOf(v, k) < FirstCoreOf(v, k + 1)

\* A successful call that found two clusters, the second discovered of which
\* has a non-core point as its earliest member.
C13_Witness ==
    /\ Returned
    /\ Len(result.clusters) >= 2
    /\ LET v == View
       IN \E e \in 1..Len(result.clusters) :
             /\ result.clusters[e].cluster_id = 1
             /\ ~v.core[result.clusters[e].points[1].index + 1]

(***************************************************************************)
(* C14: with minPoints = 1 (and a positive epsilonKm, as the interface     *)
(* requires) every valid point is a core point and the result has no noise *)
(* points; a point with no other point within epsilonKm is the only member *)
(* of a cluster of size 1 whose centroid is the point and whose radius is  *)
(* 0.                                                                      *)
(***************************************************************************)
C14_MinPointsOneSingleton ==
    (Returned /\ minSamples = 1 /\ epsKm >= 1) =>
        LET v == View
        IN /\ \A k \in v.valid : v.core[k]
           /\ Len(result.noise_points) = 0
           /\ result.summary.n_noise_points = 0
           /\ \A k \in v.valid :
                 v.nbr[k] = {k} =>
                    \E e \in 1..Len(result.clusters) :
                        LET c == result.clusters[e]
                        IN /\ v.members[e] = {k}
                           /\ c.size = 1
                           /\ c.center.latitude = Fraction(v.rwl[k].location.latitude.val, 1)
                           /\ c.center.longitude = Fraction(v.rwl[k].location.longitude.val, 1)
                           /\ c.radius_km = Zero

\* A successful call with minPoints = 1 on a batch holding a point with no
\* other point within epsilonKm next to a group of points that have one.
C14_Witness ==
    /\ Returned
    /\ minSamples = 1
    /\ epsKm >= 1
    /\ LET v == View
       IN /\ \E k \in v.valid : v.nbr[k] = {k} /\ v.rwl[k].location.latitude.val >= 1
          /\ \E k \in v.valid : v.nbr[k] # {k}

RECURSIVE SumOver(_, _)
SumOver(S, f) ==
    IF S = {} THEN 0
    ELSE LET x == CHOOSE y \in S : TRUE IN f[x] + SumOver(S \ {x}, f)

C16_CentroidIsMean ==
    Returned =>
        LET v == View
            lat == [k \in v.valid |-> v.rwl[k].location.latitude.val]
            lng == [k \in v.valid |-> v.rwl[k].location.longitude.val]
        IN \A e \in 1..Len(result.clusters) :
              LET c == result.clusters[e]
              IN /\ c.size = Len(c.points)
                 /\ c.size = Cardinality(v.members[e])
                 /\ c.center.latitude.num * c.size
                        = SumOver(v.members[e], lat) * c.center.latitude.den
                 /\ c.center.longitude.num * c.size
                        = SumOver(v.members[e], lng) * c.center.longitude.den

\* A successful call that returned a cluster whose centroid falls between
\* the grid points, at different fractions in latitude and in longitude.
C16_Witness ==
    /\ Returned
    /\ \E e \in 1..Len(result.clusters) :
          LET c == result.clusters[e]
          IN /\ c.center.latitude.den > 1
             /\ c.center.longitude.den > 1
             /\ c.center.latitude # c.center.longitude

(***************************************************************************)
(* C17: each cluster's compliance_stats counts its members by status into  *)
(* compliant / non_compliant / fraudulent; a member with an unrecognised   *)
(* status is counted in none of them and the call still returns, so the    *)
(* three counts sum to at most size, and to size exactly when every member *)
(* has a recognised status.                                                *)
(***************************************************************************)
C17_ClusterStatsTallyKnownStatuses ==
    Returned =>
        LET v == View
            with(e, status) == Cardinality({k \in v.members[e] : v.rwl[k].status = status})
        IN \A e \in 1..Len(result.clusters) :
              LET stats == result.clusters[e].compliance_stats
                  total == stats.compliant + stats.non_compliant + stats.fraudulent
              IN /\ stats.compliant = with(e, "COMPLIANT")
                 /\ stats.non_compliant = with(e, "NON_COMPLIANT")
                 /\ stats.fraudulent = with(e, "FRAUDULENT")
                 /\ total <= result.clusters[e].size
                 /\ (total = result.clusters[e].size)
                       <=> (\A k \in v.members[e] : v.rwl[k].status \in ComplianceStatus)

\* A successful call that returned a cluster holding a member with an
\* unrecognised status next to members of two recognised statuses.
C17_Witness ==
    /\ Returned
    /\ \E e \in 1..Len(result.clusters) :
          LET c == result.clusters[e]
          IN /\ \E i \in 1..Len(c.points) : c.points[i].report.status \notin ComplianceStatus
             /\ c.compliance_stats.compliant >= 1
             /\ c.compliance_stats.fraudulent >= 1

(***************************************************************************)
(* C18: the global compliance_overview is tallied over all valid points,   *)
(* noise included: each of total_compliant, total_non_compliant and        *)
(* total_fraudulent is the sum of the corresponding per-cluster counts     *)
(* plus the number of noise points with that status.                       *)
(***************************************************************************)
RECURSIVE SumStats(_, _, _)
SumStats(infos, k, field) ==
    IF k > Len(infos) THEN 0
    ELSE infos[k].compliance_stats[field] + SumStats(infos, k + 1, field)

NoiseWith(res, status) ==
    Cardinality({i \in 1..Len(res.noise_points) : res.noise_points[i].report.status = status})

C18_OverviewCountsNoiseToo ==
    Returned =>
        LET overview == result.summary.compliance_overview
        IN /\ overview.total_compliant
                = SumStats(result.clusters, 1, "compliant") + NoiseWith(result, "COMPLIANT")
           /\ overview.total_non_compliant
                = SumStats(result.clusters, 1, "non_compliant")
                  + NoiseWith(result, "NON_COMPLIANT")
           /\ overview.total_fraudulent
                = SumStats(result.clusters, 1, "fraudulent") + NoiseWith(result, "FRAUDULENT")

\* A successful call with clustered reports, a noise point of a recognised
\* status and a noise point of an unrecognised one.
C18_Witness ==
    /\ Returned
    /\ Len(result.clusters) >= 1
    /\ NoiseWith(result, "COMPLIANT") >= 1
    /\ NoiseWith(result, "UNKNOWN") >= 1

Supplied(q) == q.kind = "string" /\ q.text # <<>> /\ Number(q).kind = "number"

C20_InvalidParametersRejected ==
    (/\ handlerPc = "responded"
     /\ \/ Supplied(query.maxDistance) /\ Number(query.maxDistance).val <= 0
        \/ Supplied(query.minPoints) /\ Number(query.minPoints).val < 1)
    => /\ Len(responses) = 1
       /\ responses[1].status = 400
       /\ calls = <<>>

(***************************************************************************)
(* Vocabulary of the handler properties.                                   *)
(***************************************************************************)
Responded == handlerPc = "responded"

ParametersAccepted == ~invalidParameters(maxDistanceOf(query), minPointsOf(query))

\* The rows the store hands to the handler, and those of them that carry
\* two numbers as coordinates.
Loaded == {k \in 1..Len(store.rows) : selectedBy(store.rows[k], query.agentId)}

Analysable ==
    {k \in Loaded : /\ store.rows[k].location.latitude.kind = "number"
                    /\ store.rows[k].location.longitude.kind = "number"}

EngineCalls == {i \in 1..Len(calls) : calls[i].callee = "analyzeComplianceReports"}

(***************************************************************************)
(* C21 (as stated): the engine is never invoked with a batch that holds no *)
(* report with valid numeric coordinates; whenever the loaded reports      *)
(* yield nothing to analyse, the request ends with the fixed HTTP 200      *)
(* 'no data' response and not with an engine error.                        *)
(***************************************************************************)
C21_EmptyInputPreempted ==
    Responded =>
        /\ \A i \in EngineCalls : Len(calls[i].reports) >= 1
        /\ (ParametersAccepted /\ ~store.failure.thrown /\ Analysable = {})
              => responses = <<noDataFound>>

(***************************************************************************)
(* C21 (amended): the handler pre-empts the engine only when the store     *)
(* returns no report at all.  The reports it passes to the engine all have *)
(* two numbers as coordinates; when the store returns reports none of      *)
(* which has, the engine is invoked with an empty batch and the request    *)
(* ends with HTTP 500 carrying the engine's empty-input message.           *)
(***************************************************************************)
C21_PreemptedOnlyWhenStoreEmpty ==
    (Responded /\ ParametersAccepted /\ ~store.failure.thrown) =>
        /\ \A i \in EngineCalls : \A k \in 1..Len(calls[i].reports) :
              pointAccepted(calls[i].reports[k])
        /\ Loaded = {} => (responses = <<noDataFound>> /\ EngineCalls = {})
        /\ Loaded # {} =>
              /\ Cardinality(EngineCalls) = 1
              /\ \A i \in EngineCalls : Len(calls[i].reports) = Cardinality(Analysable)
        /\ (Loaded # {} /\ Analysable = {}) =>
              /\ Len(responses) = 1
              /\ responses[1].status = 500
              /\ responses[1].message = "No reports with valid location data found"

\* A request for which the store returned reports, none of them with two
\* numeric coordinates, answered with HTTP 500.
C21_Witness ==
    /\ Responded
    /\ Loaded # {}
    /\ Analysable = {}
    /\ \E i \in EngineCalls : calls[i].reports = <<>>
    /\ responses[1].status = 500

(***************************************************************************)
(* C22: when the report store returns zero reports, the handler responds   *)
(* with the fixed success payload (HTTP 200, totalReports 0, empty         *)
(* clusters, zeroed statistics) and the engine is not invoked during that  *)
(* request.                                                                *)
(***************************************************************************)
C22_NoReportsShortCircuits ==
    (Responded /\ ParametersAccepted /\ ~store.failure.thrown /\ Loaded = {}) =>
        /\ Len(responses) = 1
        /\ responses[1].status = 200
        /\ responses[1].success
        /\ responses[1].message = "No compliance reports with location data found"
        /\ responses[1].data.totalReports = 0
        /\ responses[1].data.clusters = <<>>
        /\ responses[1].data.statistics
              = [totalClusters |-> 0, totalCompliantReports |-> 0,
                 totalNonCompliantReports |-> 0, averageReportsPerCluster |-> 0]
        /\ EngineCalls = {}
        /\ Len(calls) = 1 /\ calls[1].callee = "getMany"

\* A request narrowed to an agent none of whose reports the store selects,
\* although the store holds located reports of another agent.
C22_Witness ==
    /\ Responded
    /\ ParametersAccepted
    /\ ~store.failure.thrown
    /\ Loaded = {}
    /\ agentGiven(query.agentId)
    /\ \E k \in 1..Len(store.rows) : selectedBy(store.rows[k], Absent)
    /\ responses = <<noDataFound>>

(***************************************************************************)
(* C23: every request gets exactly one response; when the store query or   *)
(* the engine throws, that response is HTTP 500 with success false, error  *)
(* 'Failed to perform compliance analysis' and the message of the thrown   *)
(* Error ('Unknown error' when the thrown value is not an Error); a        *)
(* response with success false carries no cluster data.                    *)
(***************************************************************************)
IsFailure(response, message) ==
    /\ response.status = 500
    /\ ~response.success
    /\ response.error = "Failed to perform compliance analysis"
    /\ response.message = message

C23_OneResponseAndFailuresAre500 ==
    /\ handlerPc = "request" => responses = <<>>
    /\ Responded =>
          /\ Len(responses) = 1
          /\ ~responses[1].success => responses[1].data = NoResult
          /\ (ParametersAccepted /\ store.failure.thrown) =>
                IsFailure(responses[1],
                          IF store.failure.isError THEN store.failure.message
                          ELSE "Unknown error")
          /\ \A i \in EngineCalls :
                LET outcome == callOutcome(calls[i].reports, calls[i].epsKm,
                                           calls[i].minSamples, turfMajor)
                IN IF outcome.pc = "thrown"
                   THEN IsFailure(responses[1], outcome.error)
                   ELSE responses[1].status = 200 /\ responses[1].data = outcome.result

\* A request whose store query threw an Error with a message of its own.
C23_Witness ==
    /\ Responded
    /\ store.failure.thrown
    /\ store.failure.isError
    /\ responses[1].message = "Connection terminated"
    /\ calls = <<storeCall(query.agentId)>>

(***************************************************************************)
(* C24 (as stated): the engine receives exactly the numeric value of the   *)
(* maxDistance and minPoints query parameters when they are supplied, and  *)
(* the defaults 1000 and 3 only when a parameter is absent; the parameters *)
(* echoed in the response are the values passed to the engine.             *)
(***************************************************************************)
C24_ParametersPassedAsSupplied ==
    Responded =>
        \A i \in EngineCalls :
            /\ Supplied(query.maxDistance) => calls[i].epsKm = Number(query.maxDistance).val
            /\ Supplied(query.minPoints) => calls[i].minSamples = Number(query.minPoints).val
            /\ query.maxDistance = Absent => calls[i].epsKm = DefaultMaxDistance
            /\ query.minPoints = Absent => calls[i].minSamples = DefaultMinPoints
            /\ responses[1].success =>
                  /\ responses[1].parameters.maxDistance = calls[i].epsKm
                  /\ responses[1].parameters.minPoints = calls[i].minSamples

(***************************************************************************)
(* The mobile compliance routes.                                           *)
(***************************************************************************)
Called(callee) == {k \in 1..Len(calls) : calls[k].callee = callee}

Handled(route) == handlerPc = "responded" /\ req.route = route

LastCall == calls[Len(calls)]

\* C25: createComplianceReport saves a report only after the user was
\* authenticated, the body passed the schema, the front image URL was
\* accepted and the back image URL was accepted, in this order; when one of
\* these checks fails it ends by calling next with 401 (no user) or 400,
\* saves nothing and writes no audit log; a 201 response is sent only after
\* the report was saved.
C25_SaveOnlyAfterChecksInOrder ==
    Handled(CreateRoute) =>
        LET reportData == [req.body EXCEPT !.agentId = req.user._id]
            front == reportData.frontImageUrl
            back == reportData.backImageUrl
            checksPass ==
                /\ authenticated(req.user)
                /\ ComplianceReportValidation(reportData)
                /\ validateScanUrls(front, NoUrl).valid
                /\ validateScanUrls(NoUrl, back).valid
            stored == complianceReports # StoredComplianceReports
        IN /\ (Called("save") # {} \/ stored) =>
                /\ checksPass
                /\ Len(calls) >= 4
                /\ calls[1] = parseCall(reportData)
                /\ calls[2] = validateCall(front, NoUrl)
                /\ calls[3] = validateCall(NoUrl, back)
                /\ Called("save") = {4}
           /\ ~authenticated(req.user) => calls = <<nextCall(401, "User not authenticated")>>
           /\ ~checksPass =>
                /\ LastCall.callee = "next"
                /\ LastCall.status = (IF authenticated(req.user) THEN 400 ELSE 401)
                /\ Called("save") = {}
                /\ Called("createLog") = {}
                /\ ~stored
                /\ auditLogs = <<>>
                /\ responses = <<>>
           /\ \A k \in 1..Len(responses) :
                /\ responses[k].status = 201
                /\ Called("save") # {}
                /\ \E j \in 1..Len(complianceReports) : complianceReports[j] = responses[k].data
           /\ Len(responses) <= 1

\* C25 witness: a report with two accepted image URLs was saved and answered
\* with 201.
C25_Witness ==
    /\ Handled(CreateRoute)
    /\ Len(responses) = 1
    /\ responses[1].status = 201
    /\ Len(complianceReports) = Len(StoredComplianceReports) + 1
    /\ Called("save") = {4}

\* C26: getComplianceReportById returns a report only when the report's
\* agentId is the authenticated user's id; a request for another agent's
\* report ends like a request for an id that does not exist, with next(404,
\* 'Report not found') and no response; an unauthenticated request ends with
\* next(401) and no store lookup.
C26_OnlyOwnReportReturned ==
    Handled(FetchRoute) =>
        LET user == req.user
            id == req.params.id
            owned == \E j \in 1..Len(complianceReports) :
                        /\ complianceReports[j]._id = id
                        /\ complianceReports[j].agentId = user._id
        IN /\ \A k \in 1..Len(responses) :
                /\ authenticated(user)
                /\ responses[k].data._id = id
                /\ responses[k].data.agentId = user._id
           /\ (authenticated(user) /\ faults = "none" /\ ~owned) =>
                /\ responses = <<>>
                /\ calls = <<findOneCall(id, user._id), nextCall(404, "Report not found")>>
           /\ ~authenticated(user) =>
                /\ responses = <<>>
                /\ calls = <<nextCall(401, "User not authenticated")>>

\* C26 witness: an agent asked for a stored report of another agent and the
\* request ended with 404.
C26_Witness ==
    /\ Handled(FetchRoute)
    /\ authenticated(req.user)
    /\ \E j \in 1..Len(complianceReports) :
          /\ complianceReports[j]._id = req.params.id
          /\ complianceReports[j].agentId # req.user._id
    /\ LastCall = nextCall(404, "Report not found")
    /\ responses = <<>>

(***************************************************************************)
(* The rate limiter.                                                       *)
(***************************************************************************)
\* C27: once the clock is past the resetTime stored for an IP, the next
\* request from that IP sets its count to 1 with a window that starts at the
\* time of the request and is passed on; so an IP that received 429 is
\* admitted again when its window is over.
C27_ExpiredWindowResets ==
    [][\A ip \in DOMAIN requestCounts :
          (/\ Len(calls') = Len(calls) + 1
           /\ ipOf(req') = ip
           /\ windowExpiredAt(now, requestCounts[ip]))
          => /\ requestCounts'[ip] = [count |-> 1, resetTime |-> now + WINDOWMS]
             /\ calls'[Len(calls')].status = 0]_vars

(***************************************************************************)
(* The invitation controller.                                              *)
(***************************************************************************)
\* The last request handled was verifyInviteToken for the token of a stored
\* invite that had expired when the handler read the clock.
VerifiedExpired ==
    /\ req.route = "verifyInviteToken"
    /\ calls # <<>>
    /\ \E k \in 1..Len(invites) :
          /\ invites[k].token = req.params.token
          /\ expired(invites[k], calls[1].value)

\* C28: an invite whose expiresAt is in the past cannot be used:
\* verifyInviteToken answers its token with the rejection 'This invitation
\* has expired', and no step registers it: its status does not become
\* 'registered' and no user is linked to it.
C28_ExpiredInviteUnusable ==
    [][/\ VerifiedExpired' => responses' = <<json(400, "This invitation has expired")>>
       /\ \A k \in 1..Len(invites) :
             expired(invites[k], now) =>
                /\ invites'[k].status = "registered" => invites[k].status = "registered"
                /\ invites'[k].userId = invites[k].userId
                /\ Len(users') = Len(users)]_vars

\* C29: at most one invite with status 'pending' exists for an email address,
\* whatever the interleaving of concurrent createAdminInvite and updateInvite
\* requests.
C29_OnePendingInvitePerEmail ==
    \A email \in Emails :
        Cardinality({k \in 1..Len(invites) :
                        invites[k].email = email /\ invites[k].status = "pending"}) <= 1

\* C30: the user linked to an invite with status 'rejected' has approved =
\* FALSE, and a user has approved = TRUE only while the status of their invite
\* is 'approved'.
C30_ApprovedOnlyWithApprovedInvite ==
    \A k \in 1..Len(invites) :
        invites[k].userId # 0 =>
            LET user == users[invites[k].userId]
            IN /\ invites[k].status = "rejected" => ~user.approved
               /\ user.approved => invites[k].status = "approved"

====
